---------------------------- MODULE Spec2Model ----------------------------
(***************************************************************************)
(* A model of the HLS proxy of the kitsune repository.                     *)
(*                                                                         *)
(* The repository holds four proxy handlers, each a deployment of its own: *)
(*   "home"     src/src/app/api/home/route.ts:14-264  (Upstash-cached      *)
(*              /api/m3u8 route: rewriteM3U8, GET)                         *)
(*   "supabase" src/unnamed/part_007:1-323            (Supabase-cached     *)
(*              /api/m3u8 route: isBlockedHost, rewritePlaylist, GET)      *)
(*   "content"  src/unnamed/part_007:325-730          (uncached /api/m3u8  *)
(*              route: rewriteM3U8, rewriteVTT, rewriteXML, GET)           *)
(*   "express"  src/m3u8-proxy/src/routes/fetch.ts    (GET /fetch and      *)
(*              GET /fetch/segment/resource with signed handles)           *)
(*                                                                         *)
(* Text is modelled as TLA+ strings, character by character: TLC           *)
(* evaluates Len, \o and SubSeq on strings.                                *)
(***************************************************************************)
EXTENDS Integers, Sequences, FiniteSets, TLC

---------------------------------------------------------------------------
(* JavaScript string primitives                                            *)

Ch(s, i) == SubSeq(s, i, i)

Drop(s, n) == SubSeq(s, n + 1, Len(s))

StartsWith(s, p) == Len(s) >= Len(p) /\ SubSeq(s, 1, Len(p)) = p

EndsWith(s, p) == Len(s) >= Len(p) /\ SubSeq(s, Len(s) - Len(p) + 1, Len(s)) = p

Includes(s, p) == \E i \in 1..(Len(s) - Len(p) + 1) : SubSeq(s, i, i + Len(p) - 1) = p

\* The least and the greatest member of a set of positions; 0 when empty.
MinOf(I) == IF I = {} THEN 0 ELSE CHOOSE i \in I : \A j \in I : i <= j
MaxOf(I) == IF I = {} THEN 0 ELSE CHOOSE i \in I : \A j \in I : i >= j

\* String.prototype.indexOf, 1-based; 0 when p does not occur.
IndexOf(s, p) == MinOf({i \in 1..(Len(s) - Len(p) + 1) : SubSeq(s, i, i + Len(p) - 1) = p})

\* The first position of s holding a character of the set cs; 0 when none.
IndexOfAny(s, cs) == MinOf({i \in 1..Len(s) : Ch(s, i) \in cs})

\* The last position of s holding a character of the set cs; 0 when none.
LastIndexOfAny(s, cs) == MaxOf({i \in 1..Len(s) : Ch(s, i) \in cs})

WhiteSpace == {" ", "\t", "\n", "\r"}

\* The positions of s that hold no white space
InkPositions(s) == {i \in 1..Len(s) : Ch(s, i) \notin WhiteSpace}

\* String.prototype.trim
Trim(s) == IF InkPositions(s) = {} THEN "" ELSE SubSeq(s, MinOf(InkPositions(s)), MaxOf(InkPositions(s)))

\* String.prototype.split(sep) for a non-empty separator
RECURSIVE Split(_, _)
Split(s, sep) ==
  LET i == IndexOf(s, sep)
  IN  IF i = 0 THEN <<s>>
      ELSE <<SubSeq(s, 1, i - 1)>> \o Split(Drop(s, i + Len(sep) - 1), sep)

\* String.prototype.split(/\r?\n/)
RECURSIVE SplitLines(_)
SplitLines(s) ==
  LET i == IndexOf(s, "\n")
  IN  IF i = 0 THEN <<s>>
      ELSE <<(IF i > 1 /\ Ch(s, i - 1) = "\r" THEN SubSeq(s, 1, i - 2)
                                                ELSE SubSeq(s, 1, i - 1))>>
           \o SplitLines(Drop(s, i))

\* Array.prototype.join
RECURSIVE Join(_, _)
Join(ss, sep) ==
  IF Len(ss) = 0 THEN ""
  ELSE IF Len(ss) = 1 THEN ss[1]
  ELSE ss[1] \o sep \o Join(Tail(ss), sep)

UpperAlpha == "ABCDEFGHIJKLMNOPQRSTUVWXYZ"
LowerAlpha == "abcdefghijklmnopqrstuvwxyz"
Digits == "0123456789"

IsDigit(c) == Len(c) = 1 /\ Includes(Digits, c)
IsAlpha(c) == Len(c) = 1 /\ (Includes(UpperAlpha, c) \/ Includes(LowerAlpha, c))
IsAlnum(c) == IsAlpha(c) \/ IsDigit(c)

LowerCh(c) == IF Includes(UpperAlpha, c) THEN Ch(LowerAlpha, IndexOf(UpperAlpha, c)) ELSE c

\* String.prototype.toLowerCase (ASCII)
RECURSIVE ToLower(_)
ToLower(s) == IF s = "" THEN "" ELSE LowerCh(Ch(s, 1)) \o ToLower(Drop(s, 1))

AllDigits(s) == Len(s) > 0 /\ \A i \in 1..Len(s) : IsDigit(Ch(s, i))

\* Number(s) / parseInt(s, 10) of a string of decimal digits
RECURSIVE DecValue(_)
DecValue(s) ==
  IF s = "" THEN 0
  ELSE 10 * DecValue(SubSeq(s, 1, Len(s) - 1)) + (IndexOf(Digits, Ch(s, Len(s))) - 1)

\* String(n), `${n}` of a non-negative integer
RECURSIVE ToDec(_)
ToDec(n) == IF n < 10 THEN Ch(Digits, n + 1) ELSE ToDec(n \div 10) \o Ch(Digits, (n % 10) + 1)

---------------------------------------------------------------------------
(* encodeURIComponent / decodeURIComponent (ASCII)                         *)

\* The printable ASCII characters in code order: U+0020 .. U+005F and
\* U+0061 .. U+007E (U+0060, the backtick, cannot be written in a TLA+ string
\* and is not a character of the model).
AsciiLow == " !\"#$%&'()*+,-./0123456789:;<=>?@ABCDEFGHIJKLMNOPQRSTUVWXYZ[\\]^_"
AsciiHigh == "abcdefghijklmnopqrstuvwxyz{|}~"

HexDigits == "0123456789ABCDEF"

CharCode(c) ==
  IF c = "\n" THEN 10 ELSE IF c = "\r" THEN 13 ELSE IF c = "\t" THEN 9
  ELSE IF Includes(AsciiLow, c) THEN 31 + IndexOf(AsciiLow, c)
  ELSE 96 + IndexOf(AsciiHigh, c)

FromCharCode(n) ==
  IF n = 10 THEN "\n" ELSE IF n = 13 THEN "\r" ELSE IF n = 9 THEN "\t"
  ELSE IF n < 96 THEN Ch(AsciiLow, n - 31)
  ELSE Ch(AsciiHigh, n - 96)

PercentByte(c) == "%" \o Ch(HexDigits, (CharCode(c) \div 16) + 1) \o Ch(HexDigits, (CharCode(c) % 16) + 1)

\* The characters encodeURIComponent leaves alone.
UriUnreserved(c) == IsAlnum(c) \/ c \in {"-", "_", ".", "!", "~", "*", "'", "(", ")"}

RECURSIVE encodeURIComponent(_)
encodeURIComponent(s) ==
  IF s = "" THEN ""
  ELSE (IF UriUnreserved(Ch(s, 1)) THEN Ch(s, 1) ELSE PercentByte(Ch(s, 1)))
       \o encodeURIComponent(Drop(s, 1))

IsHex(c) == Len(c) = 1 /\ (Includes(HexDigits, c) \/ Includes("abcdef", c))

HexValue(c) == IF Includes(HexDigits, c) THEN IndexOf(HexDigits, c) - 1 ELSE 9 + IndexOf("abcdef", c)

\* Whether every "%" of s starts a %XX escape of a character of the model.
RECURSIVE WellEscaped(_)
WellEscaped(s) ==
  IF s = "" THEN TRUE
  ELSE IF Ch(s, 1) # "%" THEN WellEscaped(Drop(s, 1))
  ELSE /\ Len(s) >= 3 /\ IsHex(Ch(s, 2)) /\ IsHex(Ch(s, 3))
       /\ 16 * HexValue(Ch(s, 2)) + HexValue(Ch(s, 3)) \in (32..95) \cup (97..126) \cup {9, 10, 13}
       /\ WellEscaped(Drop(s, 3))

\* Percent-decoding: each %XX escape becomes its character, anything else stays.
RECURSIVE PercentDecode(_)
PercentDecode(s) ==
  IF s = "" THEN ""
  ELSE IF Ch(s, 1) = "%" /\ Len(s) >= 3 /\ WellEscaped(SubSeq(s, 1, 3))
       THEN FromCharCode(16 * HexValue(Ch(s, 2)) + HexValue(Ch(s, 3))) \o PercentDecode(Drop(s, 3))
       ELSE Ch(s, 1) \o PercentDecode(Drop(s, 1))

---------------------------------------------------------------------------
(* The URL class: new URL(input), new URL(input, base) and the getters the *)
(* handlers read.  The parser follows the WHATWG URL state machine for the *)
(* inputs the model draws: ASCII text without "@", "\", "%" in the         *)
(* authority, IPv4 hosts written as decimal parts without leading zeros,   *)
(* IPv6 hosts written in their canonical form, and no file: scheme.        *)

SpecialSchemes == {"http", "https", "ftp", "ws", "wss"}

DefaultPort(scheme) ==
  CASE scheme = "http" -> "80" [] scheme = "https" -> "443" [] scheme = "ftp" -> "21"
    [] scheme = "ws" -> "80" [] scheme = "wss" -> "443" [] OTHER -> ""

\* What new URL throws a TypeError for.
FailURL ==
  [ok |-> FALSE, scheme |-> "", hasHost |-> FALSE, host |-> "", port |-> "",
   isOpaque |-> FALSE, opaque |-> "", path |-> <<>>,
   hasQuery |-> FALSE, query |-> "", hasFragment |-> FALSE, fragment |-> ""]

RECURSIVE RemoveTabNewline(_)
RemoveTabNewline(s) ==
  IF s = "" THEN ""
  ELSE (IF Ch(s, 1) \in {"\t", "\n", "\r"} THEN "" ELSE Ch(s, 1)) \o RemoveTabNewline(Drop(s, 1))

SchemeChar(c) == IsAlnum(c) \/ c \in {"+", "-", "."}

ColonAt(s, j) == IF j > 0 /\ Ch(s, j) = ":" THEN j ELSE 0

\* The position of the ":" that ends a scheme at the start of s; 0 when s
\* starts with no scheme.
SchemeEnd(s) ==
  IF s = "" \/ ~IsAlpha(Ch(s, 1)) THEN 0
  ELSE ColonAt(s, MinOf({i \in 2..Len(s) : ~SchemeChar(Ch(s, i))}))

\* Percent-encoding of the characters of a percent-encode set.
RECURSIVE EncodeSet(_, _)
EncodeSet(s, cs) ==
  IF s = "" THEN ""
  ELSE (IF Ch(s, 1) \in cs THEN PercentByte(Ch(s, 1)) ELSE Ch(s, 1)) \o EncodeSet(Drop(s, 1), cs)

QueryEncodeSet == {" ", "\"", "#", "<", ">"}
SpecialQueryEncodeSet == QueryEncodeSet \cup {"'"}
PathEncodeSet == QueryEncodeSet \cup {"?", "^", "{", "}"}
FragmentEncodeSet == {" ", "\"", "<", ">"}

ForbiddenHostChars == {" ", "\t", "\n", "\r", "#", "/", ":", "<", ">", "?", "@", "[", "\\", "]", "^", "|"}
ForbiddenDomainChars == ForbiddenHostChars \cup {"%"}

IsSingleDot(seg) == ToLower(seg) \in {".", "%2e"}
IsDoubleDot(seg) == ToLower(seg) \in {"..", ".%2e", "%2e.", "%2e%2e"}

Shorten(path) == IF Len(path) = 0 THEN path ELSE SubSeq(path, 1, Len(path) - 1)

\* The path state: the raw segments segs are appended to the path acc.
\* The path state on one raw segment; last: it is the final one
PathStep(acc, seg, last) ==
  IF IsDoubleDot(seg) THEN (IF last THEN Append(Shorten(acc), "") ELSE Shorten(acc))
  ELSE IF IsSingleDot(seg) THEN (IF last THEN Append(acc, "") ELSE acc)
  ELSE Append(acc, EncodeSet(seg, PathEncodeSet))

RECURSIVE PathSegs(_, _)
PathSegs(acc, segs) ==
  IF Len(segs) = 0 THEN acc
  ELSE PathSegs(PathStep(acc, Head(segs), Len(segs) = 1), Tail(segs))

\* s cut at its first "#" (position fi, 0 when none) and then at its first
\* "?" (position qi, 0 when none).
CutAt(s, fi, qi) ==
  [main |-> IF qi > 0 THEN SubSeq(s, 1, qi - 1) ELSE IF fi > 0 THEN SubSeq(s, 1, fi - 1) ELSE s,
   hasQuery |-> qi > 0,
   query |-> IF qi = 0 THEN "" ELSE IF fi > 0 THEN SubSeq(s, qi + 1, fi - 1) ELSE Drop(s, qi),
   hasFragment |-> fi > 0,
   fragment |-> IF fi = 0 THEN "" ELSE Drop(s, fi)]

NoFragment(s, fi) == IF fi = 0 THEN s ELSE SubSeq(s, 1, fi - 1)

CutFragment(s, fi) == CutAt(s, fi, IndexOf(NoFragment(s, fi), "?"))

CutTail(s) == CutFragment(s, IndexOf(s, "#"))

\* The query and fragment states: the tail t replaces the query and the
\* fragment of u.
WithTail(u, t, special) ==
  [u EXCEPT !.hasQuery = t.hasQuery,
            !.query = EncodeSet(t.query, IF special THEN SpecialQueryEncodeSet ELSE QueryEncodeSet),
            !.hasFragment = t.hasFragment,
            !.fragment = EncodeSet(t.fragment, FragmentEncodeSet)]

\* The IPv4 parser on decimal parts (at most nine digits each): the four
\* octets, or <<>> when the parts are no IPv4 address.
Pow256(k) == CASE k = 0 -> 1 [] k = 1 -> 256 [] k = 2 -> 65536 [] OTHER -> 16777216

\* The low n bytes of v, most significant first.
RECURSIVE Bytes(_, _)
Bytes(v, n) == IF n = 0 THEN <<>> ELSE <<(v \div Pow256(n - 1)) % 256>> \o Bytes(v, n - 1)

\* vals: the numbers of the k parts
IPv4OfNumbers(vals, k) ==
  IF \E i \in 1..(k - 1) : vals[i] > 255 THEN <<>>
  ELSE IF k > 1 /\ vals[k] >= Pow256(5 - k) THEN <<>>
  ELSE SubSeq(vals, 1, k - 1) \o Bytes(vals[k], 5 - k)

IPv4Octets(parts) ==
  IF Len(parts) > 4 \/ \E i \in 1..Len(parts) : ~AllDigits(parts[i]) \/ Len(parts[i]) > 9 THEN <<>>
  ELSE IPv4OfNumbers([i \in 1..Len(parts) |-> DecValue(parts[i])], Len(parts))

IPv4String(o) == ToDec(o[1]) \o "." \o ToDec(o[2]) \o "." \o ToDec(o[3]) \o "." \o ToDec(o[4])

\* The host parser's answer for the octets o of an IPv4 address
IPv4Host(o) == [ok |-> o # <<>>, host |-> IF o # <<>> THEN IPv4String(o) ELSE ""]

\* A trailing empty label is dropped before the ends-in-a-number check
HostLabels(parts) == IF Len(parts) > 1 /\ parts[Len(parts)] = "" THEN Shorten(parts) ELSE parts

\* The domain lower is an IPv4 address when its last label is a number
DomainHost(lower, labels) ==
  IF AllDigits(labels[Len(labels)]) THEN IPv4Host(IPv4Octets(labels))
  ELSE [ok |-> TRUE, host |-> lower]

\* The host parser: [ok, host].
ParseHost(h, special) ==
  IF StartsWith(h, "[")
    THEN [ok |-> EndsWith(h, "]") /\ Len(h) > 2, host |-> ToLower(h)]
  ELSE IF ~special
    THEN [ok |-> \A i \in 1..Len(h) : Ch(h, i) \notin ForbiddenHostChars, host |-> h]
  ELSE IF h = "" \/ \E i \in 1..Len(h) : Ch(h, i) \in ForbiddenDomainChars
    THEN [ok |-> FALSE, host |-> ""]
  ELSE DomainHost(ToLower(h), HostLabels(Split(ToLower(h), ".")))

\* The port state: [ok, port] for the text after the ":"
ParsePort(portText, scheme) ==
  IF portText = "" THEN [ok |-> TRUE, port |-> ""]
  ELSE IF ~(AllDigits(portText) /\ Len(portText) <= 5) THEN [ok |-> FALSE, port |-> ""]
  ELSE [ok |-> DecValue(portText) <= 65535,
        port |-> IF ToDec(DecValue(portText)) = DefaultPort(scheme) THEN "" ELSE ToDec(DecValue(portText))]

\* The host and port states: h and p are the parsed host and port
AuthorityOf(h, p, hostText, special, hasPort, bracketOk) ==
  [ok |-> h.ok /\ p.ok /\ bracketOk /\ (hostText = "" => (~special /\ ~hasPort)),
   host |-> h.host, port |-> p.port]

\* auth with its host ending at position close (a bracketed host) or, when
\* close = 0, before the ":" at position ci of auth
SplitAuthority(auth, close, ci, scheme, special) ==
  IF close > 0
    THEN AuthorityOf(ParseHost(SubSeq(auth, 1, close), special),
                     ParsePort(IF ci = 0 THEN "" ELSE Drop(auth, close + ci), scheme),
                     SubSeq(auth, 1, close), special, ci > 0, close = Len(auth) \/ ci = 1)
    ELSE AuthorityOf(ParseHost(IF ci = 0 THEN auth ELSE SubSeq(auth, 1, ci - 1), special),
                     ParsePort(IF ci = 0 THEN "" ELSE Drop(auth, ci), scheme),
                     IF ci = 0 THEN auth ELSE SubSeq(auth, 1, ci - 1), special, ci > 0, TRUE)

BracketEnd(auth) == IF StartsWith(auth, "[") THEN IndexOf(auth, "]") ELSE 0

\* The authority and host states on the text between "//" and the path.
ParseAuthority(auth, scheme, special) ==
  SplitAuthority(auth, BracketEnd(auth), IndexOf(Drop(auth, BracketEnd(auth)), ":"), scheme, special)

\* The path start state after an authority: main starts with "/" or is empty
PathAfterAuthority(main, special) ==
  IF main = "" THEN (IF special THEN <<"">> ELSE <<>>)
  ELSE PathSegs(<<>>, Split(Drop(main, 1), "/"))

\* a: the parsed authority, t: the cut tail
FromAuthority(scheme, special, a, t) ==
  IF ~a.ok THEN FailURL
  ELSE WithTail([FailURL EXCEPT !.ok = TRUE, !.scheme = scheme, !.hasHost = TRUE,
                                !.host = a.host, !.port = a.port,
                                !.path = PathAfterAuthority(t.main, special)],
                t, special)

\* rest with its authority ending before position e (0: at the end of rest)
AuthorityEndsAt(scheme, special, rest, e) ==
  FromAuthority(scheme, special,
                ParseAuthority(IF e = 0 THEN rest ELSE SubSeq(rest, 1, e - 1), scheme, special),
                CutTail(IF e = 0 THEN "" ELSE Drop(rest, e - 1)))

\* From the authority on: rest is the input after the "//" of the authority.
ParseFromAuthority(scheme, rest) ==
  AuthorityEndsAt(scheme, scheme \in SpecialSchemes, rest, IndexOfAny(rest, {"/", "?", "#"}))

RECURSIVE StripSlashes(_)
StripSlashes(s) == IF StartsWith(s, "/") THEN StripSlashes(Drop(s, 1)) ELSE s

\* The path of a reference with no authority: main against the base path
RelativePath(main, basePath) ==
  IF main = "" THEN basePath
  ELSE IF StartsWith(main, "/") THEN PathSegs(<<>>, Split(Drop(main, 1), "/"))
  ELSE PathSegs(Shorten(basePath), Split(main, "/"))

\* The relative state for a reference r that starts with no "//"; t: its tail
RelativeTo(base, special, t) ==
  IF t.main = "" /\ ~t.hasQuery
    THEN [base EXCEPT !.hasFragment = t.hasFragment,
                      !.fragment = EncodeSet(t.fragment, FragmentEncodeSet)]
    ELSE WithTail([base EXCEPT !.path = RelativePath(t.main, base.path)], t, special)

\* The relative state: r carries no scheme and is resolved against base.
ParseRelative(r, base) ==
  IF StartsWith(r, "//")
    THEN ParseFromAuthority(base.scheme,
                            IF base.scheme \in SpecialSchemes THEN StripSlashes(r) ELSE Drop(r, 2))
    ELSE RelativeTo(base, base.scheme \in SpecialSchemes, CutTail(r))

\* The path or opaque path state of a URL with a scheme that is not special
\* and no authority; t: the tail of the text after the scheme
NoAuthority(scheme, t) ==
  IF StartsWith(t.main, "/")
    THEN WithTail([FailURL EXCEPT !.ok = TRUE, !.scheme = scheme,
                                  !.path = PathSegs(<<>>, Split(Drop(t.main, 1), "/"))],
                  t, FALSE)
    ELSE WithTail([FailURL EXCEPT !.ok = TRUE, !.scheme = scheme, !.isOpaque = TRUE,
                                  !.opaque = t.main],
                  t, FALSE)

\* The scheme state: the input starts with scheme and ":", rest follows
WithScheme(scheme, rest, base) ==
  IF scheme \in SpecialSchemes /\ base.ok /\ base.scheme = scheme /\ ~StartsWith(rest, "//")
    THEN ParseRelative(rest, base)
  ELSE IF scheme \in SpecialSchemes \/ StartsWith(rest, "//")
    THEN ParseFromAuthority(scheme, IF scheme \in SpecialSchemes THEN StripSlashes(rest) ELSE Drop(rest, 2))
  ELSE NoAuthority(scheme, CutTail(rest))

\* The no scheme state
NoScheme(s, base) ==
  IF ~base.ok THEN FailURL
  ELSE IF base.isOpaque
    THEN IF StartsWith(s, "#")
           THEN [base EXCEPT !.hasFragment = TRUE,
                             !.fragment = EncodeSet(Drop(s, 1), FragmentEncodeSet)]
           ELSE FailURL
  ELSE ParseRelative(s, base)

\* The scheme start state: se is the position of the ":" that ends the scheme
SchemeStart(s, se, base) ==
  IF se = 0 THEN NoScheme(s, base)
  ELSE WithScheme(ToLower(SubSeq(s, 1, se - 1)), Drop(s, se), base)

ParseClean(s, base) == SchemeStart(s, SchemeEnd(s), base)

\* new URL(input, base); base is FailURL when no base is given.
URLParse(input, base) == ParseClean(RemoveTabNewline(Trim(input)), base)

RECURSIVE PathString(_)
PathString(path) == IF Len(path) = 0 THEN "" ELSE "/" \o Head(path) \o PathString(Tail(path))

\* url.pathname
Pathname(u) == IF u.isOpaque THEN u.opaque ELSE PathString(u.path)

\* url.protocol
Protocol(u) == u.scheme \o ":"

\* url.hostname
Hostname(u) == u.host

\* url.origin
Origin(u) ==
  IF u.scheme \in SpecialSchemes
    THEN u.scheme \o "://" \o u.host \o (IF u.port = "" THEN "" ELSE ":" \o u.port)
    ELSE "null"

\* url.href, url.toString()
Href(u) ==
  u.scheme \o ":"
    \o (IF u.hasHost THEN "//" \o u.host \o (IF u.port = "" THEN "" ELSE ":" \o u.port) ELSE "")
    \o Pathname(u)
    \o (IF u.hasQuery THEN "?" \o u.query ELSE "")
    \o (IF u.hasFragment THEN "#" \o u.fragment ELSE "")

---------------------------------------------------------------------------
(* The playlist rewriters of the three /api/m3u8 routes                    *)

\* The proxy URL a rewritten line is replaced by: `/api/m3u8?url=${...}${...}`.
ProxyUrl(absolute, refPart) == "/api/m3u8?url=" \o encodeURIComponent(absolute) \o refPart

\* try { return proxy URL of new URL(...).toString() } catch { return line }
ProxyOrKeep(line, u, refPart) == IF u.ok THEN ProxyUrl(Href(u), refPart) ELSE line

\* The three resolutions of the home and content routes' rewriteM3U8:
\*   "//..."  new URL(targetUrl.protocol + trimmed)
\*   "/..."   new URL(trimmed, targetUrl.origin)
\*   else     new URL(trimmed, targetUrl)
ResolveLine(trimmed, targetUrl) ==
  URLParse(IF StartsWith(trimmed, "//") THEN Protocol(targetUrl) \o trimmed ELSE trimmed,
           IF StartsWith(trimmed, "//") THEN FailURL
           ELSE IF StartsWith(trimmed, "/") THEN URLParse(Origin(targetUrl), FailURL)
           ELSE targetUrl)

\* home route, rewriteM3U8: the callback of body.split("\n").map, on a line
\* and its trimmed text
home_rewriteTrimmed(line, trimmed, targetUrl, refEncoded) ==
  IF trimmed = "" \/ StartsWith(trimmed, "#") THEN line
  ELSE IF StartsWith(trimmed, "http://") \/ StartsWith(trimmed, "https://")
    THEN ProxyUrl(trimmed, "&ref=" \o refEncoded)
  ELSE ProxyOrKeep(line, ResolveLine(trimmed, targetUrl), "&ref=" \o refEncoded)

\* A variant of the line callback that hands back the trimmed text of a
\* line it keeps; the comment-preservation property must tell it apart
home_rewriteLineTrimming(line, targetUrl, refEncoded) ==
  home_rewriteTrimmed(Trim(line), Trim(line), targetUrl, refEncoded)

home_rewriteLine(line, targetUrl, refEncoded) ==
  home_rewriteTrimmed(line, Trim(line), targetUrl, refEncoded)

\* lines.map(callback) for the line callbacks of the rewriters
home_rewriteLines(lines, targetUrl, refEncoded) ==
  [i \in 1..Len(lines) |-> home_rewriteLine(lines[i], targetUrl, refEncoded)]

\* home route, rewriteM3U8
home_rewriteM3U8(body, targetUrl, refEncoded) ==
  Join(home_rewriteLines(Split(body, "\n"), targetUrl, refEncoded), "\n")

\* supabase route, rewritePlaylist: the callback of lines.map, on a line and
\* its trimmed text; refParam is "" or "&ref=" and the encoded referer
rewritePlaylistTrimmed(line, trimmed, baseUrl, refParam) ==
  IF trimmed = "" \/ StartsWith(trimmed, "#") THEN line
  ELSE ProxyOrKeep(line, URLParse(trimmed, baseUrl), refParam)

\* A variant of the line callback that appends the referer as it came; the
\* referer carry-through property must tell it apart
rewritePlaylistLineRawRef(line, baseUrl, referer) ==
  rewritePlaylistTrimmed(line, Trim(line), baseUrl, IF referer # "" THEN "&ref=" \o referer ELSE "")

rewritePlaylistLine(line, baseUrl, referer) ==
  rewritePlaylistTrimmed(line, Trim(line), baseUrl,
                         IF referer # "" THEN "&ref=" \o encodeURIComponent(referer) ELSE "")

rewritePlaylistLines(lines, baseUrl, referer) ==
  [i \in 1..Len(lines) |-> rewritePlaylistLine(lines[i], baseUrl, referer)]

\* supabase route, rewritePlaylist
rewritePlaylist(content, baseUrl, referer) ==
  Join(rewritePlaylistLines(SplitLines(content), baseUrl, referer), "\n")

\* content route, rewriteM3U8: the callback of lines.map, on a line and its
\* trimmed text
content_rewriteTrimmed(line, trimmed, targetUrl, refEncoded) ==
  IF trimmed = "" \/ StartsWith(trimmed, "#") THEN line
  ELSE IF StartsWith(trimmed, "http://") \/ StartsWith(trimmed, "https://")
    THEN ProxyUrl(trimmed, "&ref=" \o refEncoded)
  ELSE IF \/ StartsWith(trimmed, "//")
          \/ StartsWith(trimmed, "/")
          \/ (~Includes(trimmed, "://") /\ ~StartsWith(trimmed, "#"))
    THEN ProxyOrKeep(line, ResolveLine(trimmed, targetUrl), "&ref=" \o refEncoded)
  ELSE line

content_rewriteLine(line, targetUrl, refEncoded) ==
  content_rewriteTrimmed(line, Trim(line), targetUrl, refEncoded)

content_rewriteLines(lines, targetUrl, refEncoded) ==
  [i \in 1..Len(lines) |-> content_rewriteLine(lines[i], targetUrl, refEncoded)]

\* content route, rewriteM3U8
content_rewriteM3U8(body, targetUrl, refEncoded) ==
  Join(content_rewriteLines(Split(body, "\n"), targetUrl, refEncoded), "\n")

---------------------------------------------------------------------------
(* The SSRF guards                                                         *)

\* supabase route, isBlockedHost: the regular expression
\* /^(\d{1,3})\.(\d{1,3})\.(\d{1,3})\.(\d{1,3})$/ and its groups as numbers.
IPv4Match(host) ==
  LET parts == Split(host, ".")
  IN  IF Len(parts) = 4 /\ \A i \in 1..4 : AllDigits(parts[i]) /\ Len(parts[i]) <= 3
        THEN [i \in 1..4 |-> DecValue(parts[i])]
        ELSE <<>>

\* supabase route, isBlockedHost
isBlockedHost(hostname) ==
  LET host == ToLower(hostname)
      m == IPv4Match(host)
  IN  \/ host \in {"localhost", "127.0.0.1", "::1"}
      \/ /\ m # <<>>
         /\ \/ m[1] = 127 \/ m[1] = 0
            \/ m[1] = 10
            \/ (m[1] = 169 /\ m[2] = 254)
            \/ (m[1] = 172 /\ m[2] >= 16 /\ m[2] <= 31)
            \/ (m[1] = 192 /\ m[2] = 168)
      \/ EndsWith(host, ".localhost") \/ EndsWith(host, ".local") \/ EndsWith(host, ".internal")
      \/ StartsWith(host, "fc00") \/ StartsWith(host, "fd00") \/ StartsWith(host, "fe80")

\* req.headers.get("host")?.split(":")[0]; "" when the request has no Host header
HostHeaderName(hostHeader) == IF hostHeader = "" THEN "" ELSE Split(hostHeader, ":")[1]

\* home and content routes: the inline host check of GET
isLocalTarget(target, hostHeader) ==
  \/ Hostname(target) = "localhost"
  \/ Hostname(target) = "127.0.0.1"
  \/ (hostHeader # "" /\ Hostname(target) = HostHeaderName(hostHeader))

---------------------------------------------------------------------------
(* Outbound HTTP: fetch(url, {redirect: "follow"}) against the network     *)
(* behaviour net = [hops, kind, status, ctype, clen, crange, aranges,      *)
(* body, size]: the redirect targets the origin answers with, in order,    *)
(* and then the final outcome (kind "ok": a response; "timeout": no        *)
(* answer before the deadline; "error": a connection failure).             *)

Ev(ev, arg) == [ev |-> ev, arg |-> arg]

Range(f) == {f[i] : i \in DOMAIN f}

\* Whether fetch sends a request to the parsed URL u
Fetchable(u) == u.ok /\ u.scheme \in {"http", "https"}

\* The requests fetch sends for the redirect targets hops: one for every
\* target up to the first one fetch refuses (a scheme that is not http or
\* https).
RECURSIVE FollowHops(_)
FollowHops(hops) ==
  IF Len(hops) = 0 \/ ~Fetchable(URLParse(Head(hops), FailURL)) THEN <<>>
  ELSE <<Ev("request", Href(URLParse(Head(hops), FailURL)))>> \o FollowHops(Tail(hops))

\* A variant of fetch that sends its request twice more when the origin has
\* not answered before the deadline; the single-attempt property must tell
\* it apart
FetchedRetrying(url, n, reqs) ==
  [n EXCEPT !.kind = IF Len(reqs) < Len(n.hops) \/ n.kind = "error" THEN "error"
                     ELSE IF n.kind = "timeout" THEN "abort"
                     ELSE "response"]
    @@ [trace |-> IF n.kind = "timeout"
                    THEN <<Ev("fetch", url), Ev("request", url), Ev("request", url), Ev("request", url)>> \o reqs
                    ELSE <<Ev("fetch", url), Ev("request", url)>> \o reqs]

\* The outcome of fetch(url) after the redirect requests reqs
Fetched(url, n, reqs) ==
  [n EXCEPT !.kind = IF Len(reqs) < Len(n.hops) \/ n.kind = "error" THEN "error"
                     ELSE IF n.kind = "timeout" THEN "abort"
                     ELSE "response"]
    @@ [trace |-> <<Ev("fetch", url), Ev("request", url)>> \o reqs]

\* fetch: [kind, status, ..., trace].  kind is "response", "abort" (the
\* AbortController fired) or "error" (fetch rejected with a TypeError).
Fetch(url, n) ==
  IF ~Fetchable(URLParse(url, FailURL))
    THEN [n EXCEPT !.kind = "error"] @@ [trace |-> <<Ev("fetch", url)>>]
    ELSE Fetched(url, n, FollowHops(n.hops))

\* Response.ok
StatusOk(status) == status >= 200 /\ status <= 299

---------------------------------------------------------------------------
(* Responses: status, body and the headers the claims read ("" = absent).  *)

NoHeaders == [ct |-> "", cl |-> "", cr |-> "", ar |-> "", cc |-> "", acao |-> ""]

\* new NextResponse(text, {status})
TextResponse(status, body) == [status |-> status, body |-> body, h |-> [NoHeaders EXCEPT !.ct = "text/plain;charset=UTF-8"]]

\* NextResponse.json(value, {status}), res.status(n).json(value)
JsonResponse(status, body) == [status |-> status, body |-> body, h |-> [NoHeaders EXCEPT !.ct = "application/json"]]

Response(status, body, h) == [status |-> status, body |-> body, h |-> h]

\* The statuses with which the Response constructor takes no body (fetch
\* standard, "null body status"): new Response(body, {status}) and
\* Response.json(data, {status}) throw a TypeError for them
ConstructorNullBodyStatus == {101, 103, 204, 205, 304}

InvalidStatusMessage(status) == "Response constructor: Invalid response status code " \o ToDec(status)

\* return new NextResponse(body, {status}) inside a try whose catch answers
\* new NextResponse(error.message, {status: 500})
TextResponseOrCatch(status, body) ==
  IF status \in ConstructorNullBodyStatus THEN TextResponse(500, InvalidStatusMessage(status))
  ELSE TextResponse(status, body)

\* return NextResponse.json(data, {status}) outside every try: when the
\* constructor throws, the framework answers 500
JsonResponseOrThrow(status, body) ==
  IF status \in ConstructorNullBodyStatus THEN TextResponse(500, "Internal Server Error")
  ELSE JsonResponse(status, body)

\* What a handler run yields: the response, the steps it took, and its
\* writes to the cache it uses.
Result(resp, trace, writes) == [resp |-> resp, trace |-> trace, writes |-> writes]

---------------------------------------------------------------------------
(* The Upstash cache of the home route (src/src/lib/redis.ts).  The store  *)
(* maps a key to [val, exp]: the stored string and the instant (ms) the    *)
(* key expires at.  n.cacheOk tells whether the REST calls of this request *)
(* succeed.                                                                *)

JsonEscaped == {"\"", "\\", "\n", "\r", "\t"}

\* JSON.stringify of a string: the text between the quotes
RECURSIVE JsonEscape(_)
JsonEscape(s) ==
  LET i == IndexOfAny(s, JsonEscaped)
      c == Ch(s, i)
  IN  IF i = 0 THEN s
      ELSE SubSeq(s, 1, i - 1)
           \o (CASE c = "\"" -> "\\\"" [] c = "\\" -> "\\\\" [] c = "\n" -> "\\n"
                 [] c = "\r" -> "\\r" [] c = "\t" -> "\\t")
           \o JsonEscape(Drop(s, i))

JsonStringify(s) == "\"" \o JsonEscape(s) \o "\""

\* JSON.parse of a string literal: the text between the quotes, unescaped
RECURSIVE JsonUnescape(_)
JsonUnescape(s) ==
  LET i == IndexOf(s, "\\")
      c == Ch(s, i + 1)
  IN  IF i = 0 \/ i = Len(s) THEN s
      ELSE SubSeq(s, 1, i - 1)
           \o (CASE c = "n" -> "\n" [] c = "r" -> "\r" [] c = "t" -> "\t" [] OTHER -> c)
           \o JsonUnescape(Drop(s, i + 1))

\* getCached's "JSON.parse(result), else the plain string" on a stored string
JsonParseOrRaw(v) ==
  IF Len(v) >= 2 /\ StartsWith(v, "\"") /\ EndsWith(v, "\"")
    THEN JsonUnescape(SubSeq(v, 2, Len(v) - 1))
    ELSE v

\* base64 (RFC 4648): the 64 characters of the alphabet in value order
Base64Alphabet == UpperAlpha \o LowerAlpha \o Digits \o "+/"

Sextet(v) == Ch(Base64Alphabet, v + 1)

\* The byte at position i of a buffer; past its end, the zero the last
\* group is filled with
ByteAt(bytes, i) == IF i <= Len(bytes) THEN CharCode(Ch(bytes, i)) ELSE 0

\* The four characters of a group of k bytes (1..3) whose 24 bits are v
Base64Quad(v, k) ==
  Sextet(v \div 262144) \o Sextet((v \div 4096) % 64)
    \o (IF k > 1 THEN Sextet((v \div 64) % 64) ELSE "=")
    \o (IF k > 2 THEN Sextet(v % 64) ELSE "=")

\* Buffer.toString('base64')
RECURSIVE Base64Encode(_)
Base64Encode(bytes) ==
  IF bytes = "" THEN ""
  ELSE Base64Quad(ByteAt(bytes, 1) * 65536 + ByteAt(bytes, 2) * 256 + ByteAt(bytes, 3),
                  MinOf({3, Len(bytes)}))
       \o Base64Encode(Drop(bytes, 3))

\* The value of the base64 character at position i; 0 past the end
SextetAt(d, i) == IF i <= Len(d) THEN IndexOf(Base64Alphabet, Ch(d, i)) - 1 ELSE 0

\* The character of a byte, for the bytes that are characters of the model
ByteChar(n) ==
  IF n \in {9, 10, 13} \/ (n >= 32 /\ n <= 126 /\ n # 96) THEN FromCharCode(n) ELSE ""

\* The bytes of a group of k base64 characters (2..4) whose bits are v
Base64Bytes(v, k) ==
  ByteChar(v \div 65536)
    \o (IF k > 2 THEN ByteChar((v \div 256) % 256) ELSE "")
    \o (IF k > 3 THEN ByteChar(v % 256) ELSE "")

RECURSIVE Base64DecodeData(_)
Base64DecodeData(d) ==
  IF Len(d) < 2 THEN ""
  ELSE Base64Bytes(SextetAt(d, 1) * 262144 + SextetAt(d, 2) * 4096
                     + SextetAt(d, 3) * 64 + SextetAt(d, 4),
                   MinOf({4, Len(d)}))
       \o Base64DecodeData(Drop(d, 4))

\* The base64 text up to its padding
Base64Data(v, pad) == IF pad = 0 THEN v ELSE SubSeq(v, 1, pad - 1)

\* Buffer.from(v, 'base64')
Base64Decode(v) == Base64DecodeData(Base64Data(v, IndexOf(v, "=")))

EmptyStore == [k \in {} |-> [val |-> "", exp |-> 0]]

Put(store, key, entry) == [k \in DOMAIN store \cup {key} |-> IF k = key THEN entry ELSE store[k]]

\* The live value of a key: [hit, val]
RedisGet(store, key, t) ==
  IF key \in DOMAIN store /\ t < store[key].exp
    THEN [hit |-> TRUE, val |-> store[key].val]
    ELSE [hit |-> FALSE, val |-> ""]

\* A variant of getCached that hands back the stored text as it is, without
\* JSON.parse; the cache-idempotence property must tell it apart
getCachedRaw(store, key, t, cfgOk, ioOk) ==
  IF ~cfgOk \/ ~ioOk THEN [hit |-> FALSE, val |-> ""]
  ELSE RedisGet(store, key, t)

\* redis.ts, getCached: [hit, val]; a miss on any failure
getCached(store, key, t, cfgOk, ioOk) ==
  IF ~cfgOk \/ ~ioOk THEN [hit |-> FALSE, val |-> ""]
  ELSE LET g == RedisGet(store, key, t)
       IN  [hit |-> g.hit, val |-> JsonParseOrRaw(g.val)]

\* redis.ts, getCachedBuffer
getCachedBuffer(store, key, t, cfgOk, ioOk) ==
  IF ~cfgOk \/ ~ioOk THEN [hit |-> FALSE, val |-> ""]
  ELSE LET g == RedisGet(store, key, t)
       IN  [hit |-> g.hit, val |-> Base64Decode(g.val)]

\* redis.ts, setCached: the writes it makes (none on any failure)
setCached(key, value, isBuffer, ttlSeconds, t, cfgOk, ioOk) ==
  IF ~cfgOk \/ ~ioOk THEN <<>>
  ELSE <<[key |-> key,
          entry |-> [val |-> IF isBuffer THEN Base64Encode(value) ELSE JsonStringify(value),
                     exp |-> t + ttlSeconds * 1000]]>>

RECURSIVE ApplyWrites(_, _)
ApplyWrites(store, writes) ==
  IF Len(writes) = 0 THEN store
  ELSE ApplyWrites(Put(store, Head(writes).key, Head(writes).entry), Tail(writes))

---------------------------------------------------------------------------
(* home route: src/src/app/api/home/route.ts                               *)

home_TEXT_EXTENSIONS == {".m3u8", ".m3u", ".vtt", ".srt", ".xml", ".mpd", ".json", ".txt"}

\* home route, isTextContent
home_isTextContent(contentType, url) ==
  LET pathname == ToLower(Pathname(url))
      ct == ToLower(contentType)
  IN  \/ \E ext \in home_TEXT_EXTENSIONS : EndsWith(pathname, ext)
      \/ /\ contentType # ""
         /\ \/ StartsWith(ct, "text/")
            \/ Includes(ct, "application/vnd.apple.mpegurl")
            \/ Includes(ct, "application/x-mpegurl")

\* home route, getCacheKey: "m3u8:" and the first 16 hex digits of the
\* SHA-256 of the url; the hash is taken to be collision-free.
home_getCacheKey(url) == "m3u8:" \o url

HomeDefaultRef == "https://your-anime-site.com/"

TenMiB == 10 * 1024 * 1024

\* A handler result that also lists its cache writes in the trace
WithWrites(resp, trace, writes) ==
  Result(resp, trace \o [i \in 1..Len(writes) |-> Ev("cacheSet", writes[i].key)], writes)

\* home route, GET, lines 198-210: the rewritten text is cached and sent
home_text(n, t, cfgOk, cacheKey, isPlaylist, headers, trace, rewritten) ==
  WithWrites(Response(200, rewritten, headers), trace,
             IF isPlaylist THEN setCached(cacheKey, rewritten, FALSE, 10, t, cfgOk, n.cacheOk)
             ELSE <<>>)

\* A variant of the route that also stores a segment of exactly 10 MiB; the
\* size property must tell it apart
home_upstreamInclusive(n, t, cfgOk, target, ref, cacheKey, isSegment, isPlaylist, headers, up, trace) ==
  IF ~StatusOk(up.status) /\ up.status # 206
    THEN Result(TextResponseOrCatch(up.status, "Upstream error: " \o ToDec(up.status)), trace, <<>>)
  ELSE IF home_isTextContent(up.ctype, target)
    THEN IF up.body = "" THEN Result(TextResponse(500, "Empty content"), trace, <<>>)
         ELSE home_text(n, t, cfgOk, cacheKey, isPlaylist, headers, trace,
                        home_rewriteM3U8(up.body, target, encodeURIComponent(ref)))
  ELSE IF isSegment
    THEN WithWrites(Response(200, up.body, headers), trace,
                    IF up.size <= TenMiB
                      THEN setCached(cacheKey, up.body, TRUE, 86400, t, cfgOk, n.cacheOk)
                      ELSE <<>>)
  ELSE Result(Response(up.status, up.body, headers), trace, <<>>)

\* home route, GET, lines 164-239: the upstream response up has arrived
home_upstream(n, t, cfgOk, target, ref, cacheKey, isSegment, isPlaylist, headers, up, trace) ==
  IF ~StatusOk(up.status) /\ up.status # 206
    THEN Result(TextResponseOrCatch(up.status, "Upstream error: " \o ToDec(up.status)), trace, <<>>)
  ELSE IF home_isTextContent(up.ctype, target)
    THEN IF up.body = "" THEN Result(TextResponse(500, "Empty content"), trace, <<>>)
         ELSE home_text(n, t, cfgOk, cacheKey, isPlaylist, headers, trace,
                        home_rewriteM3U8(up.body, target, encodeURIComponent(ref)))
  ELSE IF isSegment
    THEN WithWrites(Response(200, up.body, headers), trace,
                    IF up.size < TenMiB
                      THEN setCached(cacheKey, up.body, TRUE, 86400, t, cfgOk, n.cacheOk)
                      ELSE <<>>)
  ELSE Result(Response(up.status, up.body, headers), trace, <<>>)

\* home route, GET, lines 140-162 and 241-251: the origin fetch and the catch
home_fetch(n, t, cfgOk, target, ref, cacheKey, isSegment, isPlaylist, up, trace) ==
  IF up.kind = "abort" THEN Result(TextResponse(504, "Request timeout"), trace \o up.trace, <<>>)
  ELSE IF up.kind = "error" THEN Result(TextResponse(500, "fetch failed"), trace \o up.trace, <<>>)
  ELSE home_upstream(n, t, cfgOk, target, ref, cacheKey, isSegment, isPlaylist,
                     [NoHeaders EXCEPT !.acao = "*", !.ct = up.ctype, !.cl = up.clen,
                        !.cc = IF isSegment THEN "public, max-age=31536000, immutable"
                               ELSE IF isPlaylist THEN "public, max-age=10" ELSE ""],
                     up, trace \o up.trace)

\* home route, GET, lines 102-136: the cache lookups; seg and pl are the
\* answers of getCachedBuffer and getCached
home_lookup(n, t, cfgOk, target, ref, cacheKey, isSegment, isPlaylist, seg, pl, trace) ==
  IF isSegment /\ seg.hit
    THEN Result(Response(200, seg.val,
                  [NoHeaders EXCEPT !.ct = "video/mp2t", !.acao = "*",
                                    !.cc = "public, max-age=31536000, immutable",
                                    !.cl = ToDec(Len(seg.val))]),
                trace, <<>>)
  ELSE IF isPlaylist /\ pl.hit /\ pl.val # ""
    THEN Result(Response(200, pl.val,
                  [NoHeaders EXCEPT !.ct = "application/vnd.apple.mpegurl", !.acao = "*",
                                    !.cc = "public, max-age=10"]),
                trace, <<>>)
  ELSE IF ~URLParse(ref, FailURL).ok THEN Result(TextResponse(500, "Invalid URL"), trace, <<>>)
  ELSE home_fetch(n, t, cfgOk, target, ref, cacheKey, isSegment, isPlaylist,
                  Fetch(Href(target), n), trace)

\* home route, GET, lines 93-100: the kind of the target and its cache key
home_classified(n, store, t, cfgOk, target, ref, cacheKey, isSegment, isPlaylist) ==
  home_lookup(n, t, cfgOk, target, ref, cacheKey, isSegment, isPlaylist,
              getCachedBuffer(store, cacheKey, t, cfgOk, n.cacheOk),
              getCached(store, cacheKey, t, cfgOk, n.cacheOk),
              <<Ev("guard", "permitted")>>
                \o (IF isSegment \/ isPlaylist THEN <<Ev("cacheGet", cacheKey)>> ELSE <<>>))

\* home route, GET, lines 76-100: target is new URL(urlParam)
home_target(r, n, store, t, cfgOk, target, ref) ==
  IF ~target.ok THEN Result(TextResponse(400, "Invalid URL format"), <<>>, <<>>)
  ELSE IF isLocalTarget(target, r.host)
    THEN Result(TextResponse(403, "Access denied"), <<Ev("guard", "rejected")>>, <<>>)
  ELSE home_classified(n, store, t, cfgOk, target, ref, home_getCacheKey(r.url),
                       \E ext \in {".ts", ".m4s", ".mp4"} : EndsWith(ToLower(Pathname(target)), ext),
                       EndsWith(ToLower(Pathname(target)), ".m3u8"))

\* home route, GET
home_GET(r, n, store, t, cfgOk) ==
  IF r.url = "" THEN Result(TextResponse(400, "Missing url parameter"), <<>>, <<>>)
  ELSE home_target(r, n, store, t, cfgOk, URLParse(r.url, FailURL),
                   IF r.ref # "" THEN r.ref ELSE HomeDefaultRef)

---------------------------------------------------------------------------
(* supabase route: src/unnamed/part_007, lines 1-323                       *)

PLAYLIST_CACHE_TTL_MS == 15 * 60 * 1000

\* A variant of getCachedPlaylist that answers from the table although the
\* read has failed; the failure-is-a-miss property must tell it apart
getCachedPlaylistUnguarded(rows, cacheKey, t, ioOk) ==
  IF cacheKey \notin DOMAIN rows THEN [hit |-> FALSE, val |-> ""]
  ELSE IF t - rows[cacheKey].at > PLAYLIST_CACHE_TTL_MS THEN [hit |-> FALSE, val |-> ""]
  ELSE [hit |-> TRUE, val |-> rows[cacheKey].val]

\* supabase route, getCachedPlaylist: [hit, val] from the rows of m3u8_cache,
\* each [val, at]: the content and the instant (ms) of fetchedAt
getCachedPlaylist(rows, cacheKey, t, ioOk) ==
  IF ~ioOk \/ cacheKey \notin DOMAIN rows THEN [hit |-> FALSE, val |-> ""]
  ELSE IF t - rows[cacheKey].at > PLAYLIST_CACHE_TTL_MS THEN [hit |-> FALSE, val |-> ""]
  ELSE [hit |-> TRUE, val |-> rows[cacheKey].val]

\* supabase route, setCachedPlaylist: the rows it upserts
setCachedPlaylist(cacheKey, content, t, ioOk) ==
  IF ~ioOk THEN <<>> ELSE <<[key |-> cacheKey, entry |-> [val |-> content, at |-> t]]>>

\* supabase route, inferContentType
inferContentType(ext) ==
  CASE ext \in {"m3u8", "m3u"} -> "application/vnd.apple.mpegurl"
    [] ext = "mpd" -> "application/dash+xml"
    [] ext = "ts" -> "video/mp2t"
    [] ext \in {"m4s", "mp4"} -> "video/mp4"
    [] ext = "webm" -> "video/webm"
    [] ext = "mp3" -> "audio/mpeg"
    [] ext = "aac" -> "audio/aac"
    [] ext = "m4a" -> "audio/mp4"
    [] OTHER -> "application/octet-stream"

\* The statuses whose response has a null body
NullBodyStatus == {204, 205}

\* Array.prototype.pop(): the last element
LastOf(parts) == parts[Len(parts)]

\* targetUrl.pathname.split('.').pop()?.toLowerCase()
PathExt(u) == ToLower(LastOf(Split(Pathname(u), ".")))

\* supabase route, GET, lines 270-293: the rewritten playlist is cached and sent
supabase_playlist(n, t, cacheKey, allowCache, contentType, trace, rewrittenPlaylist) ==
  WithWrites(Response(200, rewrittenPlaylist,
               [NoHeaders EXCEPT !.ct = contentType, !.acao = "*", !.cc = "no-cache"]),
             trace,
             IF allowCache THEN setCachedPlaylist(cacheKey, rewrittenPlaylist, t, n.cacheOk) ELSE <<>>)

\* supabase route, GET, lines 258-322: the upstream response up is ok
supabase_upstream(r, n, t, targetUrl, isPlaylist, cacheKey, allowCache, contentType, up, trace) ==
  IF isPlaylist
    THEN supabase_playlist(n, t, cacheKey, allowCache, contentType, trace,
                           rewritePlaylist(up.body, targetUrl, r.ref))
  ELSE IF up.status \in NullBodyStatus
    THEN Result(JsonResponse(500, "{\"error\":\"No content in upstream response\"}"), trace, <<>>)
  ELSE Result(Response(up.status, up.body,
                [NoHeaders EXCEPT !.ct = contentType, !.acao = "*", !.cr = up.crange,
                                  !.ar = up.aranges, !.cl = up.clen,
                                  !.cc = IF r.range = "" THEN "public, max-age=31536000, immutable" ELSE ""]),
              trace, <<>>)

\* supabase route, GET, lines 220-256: the origin fetch and its failures
supabase_fetch(r, n, t, targetUrl, ext, isPlaylist, cacheKey, allowCache, up, trace) ==
  IF up.kind = "abort"
    THEN Result(JsonResponse(504, "{\"error\":\"Failed to fetch the resource\",\"details\":\"Fetch timed out\"}"),
                trace \o up.trace, <<>>)
  ELSE IF up.kind = "error"
    THEN Result(JsonResponse(502, "{\"error\":\"Failed to fetch the resource\",\"details\":\"fetch failed\"}"),
                trace \o up.trace, <<>>)
  ELSE IF ~StatusOk(up.status)
    THEN Result(JsonResponseOrThrow(up.status, "{\"error\":\"Upstream error: " \o ToDec(up.status) \o " " \o up.stext \o "\"}"),
                trace \o up.trace, <<>>)
  ELSE supabase_upstream(r, n, t, targetUrl, isPlaylist, cacheKey, allowCache,
                         IF up.ctype # "" THEN up.ctype ELSE inferContentType(ext),
                         up, trace \o up.trace)

\* supabase route, GET, lines 200-218: the cache lookup; cached is the answer
\* of getCachedPlaylist
supabase_lookup(r, n, t, targetUrl, ext, isPlaylist, cacheKey, allowCache, cached, trace) ==
  IF allowCache /\ isPlaylist /\ cached.hit
    THEN Result(Response(200, cached.val,
                  [NoHeaders EXCEPT !.ct = inferContentType(ext), !.acao = "*", !.cc = "no-cache"]),
                trace, <<>>)
  ELSE supabase_fetch(r, n, t, targetUrl, ext, isPlaylist, cacheKey, allowCache,
                      Fetch(Href(targetUrl), n), trace)

\* supabase route, GET, lines 190-198: the kind of the target, the cache key
\* and whether the cache is used
supabase_classified(r, n, rows, t, targetUrl, ext, isPlaylist, cacheKey, allowCache) ==
  supabase_lookup(r, n, t, targetUrl, ext, isPlaylist, cacheKey, allowCache,
                  getCachedPlaylist(rows, cacheKey, t, n.cacheOk),
                  <<Ev("guard", "permitted")>>
                    \o (IF allowCache /\ isPlaylist THEN <<Ev("cacheGet", cacheKey)>> ELSE <<>>))

supabase_ext(r, n, rows, t, cacheEnabled, targetUrl, ext) ==
  supabase_classified(r, n, rows, t, targetUrl, ext, ext = "m3u8" \/ ext = "m3u",
                      IF r.ref # "" THEN Href(targetUrl) \o "::ref=" \o r.ref ELSE Href(targetUrl),
                      cacheEnabled /\ r.range = "")

\* supabase route, GET, lines 176-190: targetUrl is new URL(targetUrlParam)
supabase_target(r, n, rows, t, cacheEnabled, targetUrl) ==
  IF ~targetUrl.ok
    THEN Result(JsonResponse(400, "{\"error\":\"Invalid URL\"}"), <<>>, <<>>)
  ELSE IF Protocol(targetUrl) # "http:" /\ Protocol(targetUrl) # "https:"
    THEN Result(JsonResponse(400, "{\"error\":\"Unsupported protocol\"}"), <<Ev("guard", "rejected")>>, <<>>)
  ELSE IF isBlockedHost(Hostname(targetUrl))
    THEN Result(JsonResponse(403, "{\"error\":\"Forbidden host\"}"), <<Ev("guard", "rejected")>>, <<>>)
  ELSE supabase_ext(r, n, rows, t, cacheEnabled, targetUrl, PathExt(targetUrl))

\* supabase route, GET.  cacheEnabled: NODE_ENV is production and the
\* Supabase client is configured.
supabase_GET(r, n, rows, t, cacheEnabled) ==
  IF r.url = ""
    THEN Result(JsonResponse(400, "{\"error\":\"Missing \\\"url\\\" query parameter\"}"), <<>>, <<>>)
  ELSE supabase_target(r, n, rows, t, cacheEnabled, URLParse(r.url, FailURL))

---------------------------------------------------------------------------
(* content route: src/unnamed/part_007, lines 325-730                      *)

MEDIA_EXTENSIONS ==
  {".ts", ".m4s", ".mp4", ".m4v", ".mov", ".avi", ".mkv", ".webm", ".flv",
   ".aac", ".mp3", ".wav", ".flac", ".ogg", ".m3u8", ".m3u", ".mpd",
   ".vtt", ".srt", ".ass", ".ssa", ".ttml", ".dfxp", ".sbv", ".sub",
   ".jpg", ".jpeg", ".png", ".webp", ".bmp", ".gif", ".svg", ".xml", ".json", ".txt"}

MEDIA_CONTENT_TYPES ==
  {"application/vnd.apple.mpegurl", "application/x-mpegurl", "audio/mpegurl",
   "application/dash+xml", "video/mp2t", "video/mp4", "video/webm", "video/x-flv",
   "audio/mp4", "audio/aac", "audio/mpeg", "text/vtt", "application/x-subrip",
   "application/ttml+xml", "image/jpeg", "image/png", "image/webp", "text/plain",
   "application/octet-stream"}

\* content route, shouldProxyByExtension
shouldProxyByExtension(url) ==
  LET pathname == ToLower(Pathname(url))
  IN  \E ext \in MEDIA_EXTENSIONS : EndsWith(pathname, ext)

\* content route, shouldProxyContent ("" = no Content-Type header)
shouldProxyContent(contentType, url) ==
  IF contentType = "" THEN shouldProxyByExtension(url)
  ELSE LET ct == Split(ToLower(contentType), ";")[1]
       IN  \/ \E mediaType \in MEDIA_CONTENT_TYPES : Includes(ct, mediaType)
           \/ StartsWith(ct, "text/")
           \/ Includes(ct, "application/") \/ Includes(ct, "video/")
           \/ Includes(ct, "audio/") \/ Includes(ct, "image/")
           \/ shouldProxyByExtension(url)

\* content route, isTextBasedContent
isTextBasedContent(contentType, url) ==
  LET pathname == ToLower(Pathname(url))
      ct == ToLower(contentType)
  IN  \/ \E ext \in {".m3u8", ".m3u", ".vtt", ".srt", ".xml", ".mpd", ".json", ".txt"} :
           EndsWith(pathname, ext)
      \/ /\ contentType # ""
         /\ \/ StartsWith(ct, "text/")
            \/ \E t \in {"application/vnd.apple.mpegurl", "application/x-mpegurl",
                         "application/dash+xml", "application/xml", "application/json",
                         "text/vtt", "application/x-subrip", "application/ttml+xml"} :
                 Includes(ct, t)

\* The length of the longest prefix of s whose characters are all outside stop
RECURSIVE RunLength(_, _)
RunLength(s, stop) ==
  IF s = "" \/ Includes(stop, Ch(s, 1)) THEN 0 ELSE 1 + RunLength(Drop(s, 1), stop)

\* The length of the first of the literal prefixes that s starts with; 0
\* when it starts with none
RECURSIVE PrefixLength(_, _)
PrefixLength(s, prefixes) ==
  IF Len(prefixes) = 0 THEN 0
  ELSE IF StartsWith(s, Head(prefixes)) THEN Len(Head(prefixes))
  ELSE PrefixLength(s, Tail(prefixes))

\* A prefix of length p followed by a run of length r, both non-empty: p + r
PrefixAndRun(p, r) == IF p > 0 /\ r > 0 THEN p + r ELSE 0

\* The length of the match of (https?:\/\/[^stop]+|\.\.?\/[^stop]+) at the
\* start of s, 0 when there is none; p: the length of the literal prefix
UrlRunAfter(s, stop, p) == PrefixAndRun(p, RunLength(Drop(s, p), stop))

\* The same match, case-sensitive (rewriteVTT)
UrlMatchLength(s, stop) == UrlRunAfter(s, stop, PrefixLength(s, <<"https://", "http://", "../", "./">>))

\* The same match under the "i" flag (rewriteXML)
UrlMatchLengthFold(s, stop) ==
  UrlRunAfter(s, stop, PrefixLength(ToLower(SubSeq(s, 1, MinOf({Len(s), 8}))), <<"https://", "http://", "../", "./">>))

\* The callback rewriteVTT and rewriteXML hand to replace: [ok, url];
\* resolved is new URL(match, targetUrl)
content_replaced(match, resolved, refEncoded) ==
  IF StartsWith(match, "http") THEN [ok |-> TRUE, url |-> ProxyUrl(match, "&ref=" \o refEncoded)]
  ELSE IF resolved.ok THEN [ok |-> TRUE, url |-> ProxyUrl(Href(resolved), "&ref=" \o refEncoded)]
  ELSE [ok |-> FALSE, url |-> match]

content_rewriteMatch(match, targetUrl, refEncoded) ==
  content_replaced(match, URLParse(match, targetUrl), refEncoded)

VttStop == " \t\n\r)"

\* The position after which the scan for the next match of body resumes:
\* next is the position, in body without its first character, of the next
\* character that can start a match (0: none)
ScanFrom(body, next) == IF next = 0 THEN Len(body) ELSE next

\* content route, rewriteVTT.  m: the length of the match at the start of
\* body, skip: where the scan resumes when there is none
RECURSIVE rewriteVTT(_, _, _)
rewriteVTTAt(body, targetUrl, refEncoded, m, skip) ==
  IF m = 0 THEN SubSeq(body, 1, skip) \o rewriteVTT(Drop(body, skip), targetUrl, refEncoded)
  ELSE content_rewriteMatch(SubSeq(body, 1, m), targetUrl, refEncoded).url
         \o rewriteVTT(Drop(body, m), targetUrl, refEncoded)

rewriteVTT(body, targetUrl, refEncoded) ==
  IF body = "" THEN ""
  ELSE rewriteVTTAt(body, targetUrl, refEncoded, UrlMatchLength(body, VttStop),
                    ScanFrom(body, IndexOfAny(Drop(body, 1), {"h", "."})))

\* The match of /<([^>]+)>(https?:\/\/[^<]+|\.\.?\/[^<]+)<\/[^>]+>/i at the
\* start of s: [len, tag, url], len = 0 when there is none.  The stages
\* match "<tag>", the URL text, and "</...>".
XmlNoMatch == [len |-> 0, tag |-> "", url |-> ""]

XmlClose(s, tagLen, urlLen, closeLen) ==
  IF closeLen > 0 /\ StartsWith(Drop(s, 1 + tagLen + 1 + urlLen + 2 + closeLen), ">")
    THEN [len |-> 1 + tagLen + 1 + urlLen + 2 + closeLen + 1,
          tag |-> SubSeq(s, 2, 1 + tagLen),
          url |-> SubSeq(s, 1 + tagLen + 2, 1 + tagLen + 1 + urlLen)]
    ELSE XmlNoMatch

XmlUrl(s, tagLen, urlLen) ==
  IF urlLen > 0 /\ StartsWith(Drop(s, 1 + tagLen + 1 + urlLen), "</")
    THEN XmlClose(s, tagLen, urlLen, RunLength(Drop(s, 1 + tagLen + 1 + urlLen + 2), ">"))
    ELSE XmlNoMatch

XmlTag(s, tagLen) ==
  IF tagLen > 0 /\ StartsWith(Drop(s, 1 + tagLen), ">")
    THEN XmlUrl(s, tagLen, UrlMatchLengthFold(Drop(s, 1 + tagLen + 1), "<"))
    ELSE XmlNoMatch

XmlMatch(s) == IF StartsWith(s, "<") THEN XmlTag(s, RunLength(Drop(s, 1), ">")) ELSE XmlNoMatch

\* The text an XML match m is replaced by; rw: the callback's answer
XmlReplacement(body, m, rw) ==
  IF rw.ok THEN "<" \o m.tag \o ">" \o rw.url \o "</" \o m.tag \o ">" ELSE SubSeq(body, 1, m.len)

\* content route, rewriteXML
RECURSIVE rewriteXML(_, _, _)
rewriteXMLAt(body, targetUrl, refEncoded, m, skip) ==
  IF m.len = 0 THEN SubSeq(body, 1, skip) \o rewriteXML(Drop(body, skip), targetUrl, refEncoded)
  ELSE XmlReplacement(body, m, content_rewriteMatch(m.url, targetUrl, refEncoded))
         \o rewriteXML(Drop(body, m.len), targetUrl, refEncoded)

rewriteXML(body, targetUrl, refEncoded) ==
  IF body = "" THEN ""
  ELSE rewriteXMLAt(body, targetUrl, refEncoded, XmlMatch(body),
                    ScanFrom(body, IndexOf(Drop(body, 1), "<")))

\* content route, rewriteContent on the lower-cased path of the target
rewriteContentAt(body, targetUrl, refEncoded, contentType, lowerPath) ==
  IF Includes(contentType, "vtt") \/ EndsWith(lowerPath, ".vtt")
    THEN rewriteVTT(body, targetUrl, refEncoded)
  ELSE IF Includes(contentType, "xml") \/ EndsWith(lowerPath, ".xml") \/ EndsWith(lowerPath, ".mpd")
    THEN rewriteXML(body, targetUrl, refEncoded)
  ELSE content_rewriteM3U8(body, targetUrl, refEncoded)

\* content route, rewriteContent
rewriteContent(body, targetUrl, ref, contentType) ==
  rewriteContentAt(body, targetUrl, encodeURIComponent(ref), contentType, ToLower(Pathname(targetUrl)))

\* content route, GET, lines 638-695: the upstream response up is ok
content_upstream(target, ref, headers, up, trace) ==
  IF isTextBasedContent(up.ctype, target) /\ shouldProxyContent(up.ctype, target)
    THEN IF up.body = "" THEN Result(TextResponse(500, "Empty content"), trace, <<>>)
         ELSE Result(Response(200, rewriteContent(up.body, target, ref, up.ctype), headers), trace, <<>>)
  ELSE Result(Response(200, up.body, [headers EXCEPT !.cl = up.clen]), trace, <<>>)

\* content route, GET, lines 618-648 and 696-708: the origin fetch and the catch
content_fetch(target, ref, up, trace) ==
  IF up.kind = "abort" THEN Result(TextResponse(504, "Upstream timeout"), trace \o up.trace, <<>>)
  ELSE IF up.kind = "error" THEN Result(TextResponse(500, "fetch failed"), trace \o up.trace, <<>>)
  ELSE IF ~StatusOk(up.status)
    THEN Result(TextResponseOrCatch(up.status, "Upstream error: " \o ToDec(up.status) \o " " \o up.stext),
                trace \o up.trace, <<>>)
  ELSE content_upstream(target, ref,
         [NoHeaders EXCEPT !.acao = "*", !.ct = up.ctype,
            !.cc = IF Includes(up.ctype, "video") \/ Includes(up.ctype, "audio")
                     THEN "public, max-age=7200"
                   ELSE IF Includes(up.ctype, "image") THEN "public, max-age=86400"
                   ELSE "public, max-age=300"],
         up, trace \o up.trace)

\* content route, GET, lines 599-636: target is new URL(urlParam)
content_target(r, n, target, ref) ==
  IF ~target.ok THEN Result(TextResponse(400, "Invalid URL format"), <<>>, <<>>)
  ELSE IF isLocalTarget(target, r.host)
    THEN Result(TextResponse(403, "Access to local resources is not allowed"),
                <<Ev("guard", "rejected")>>, <<>>)
  ELSE IF ~URLParse(ref, FailURL).ok
    THEN Result(TextResponse(500, "Invalid URL"), <<Ev("guard", "permitted")>>, <<>>)
  ELSE content_fetch(target, ref, Fetch(Href(target), n), <<Ev("guard", "permitted")>>)

\* content route, GET
content_GET(r, n) ==
  IF r.url = "" THEN Result(TextResponse(400, "Missing url parameter"), <<>>, <<>>)
  ELSE content_target(r, n, URLParse(r.url, FailURL), IF r.ref # "" THEN r.ref ELSE HomeDefaultRef)

\* new NextResponse(null, {status: res.status, headers: res.headers})
WithoutBody(res) == [res EXCEPT !.resp = [res.resp EXCEPT !.body = ""]]

\* content route, HEAD: GET without the body
content_HEAD(r, n) == WithoutBody(content_GET(r, n))

---------------------------------------------------------------------------
(* express proxy: src/m3u8-proxy/src/routes/fetch.ts                       *)

\* process.env.SECRET_KEY || "update-this-secret", with the variable unset
SECRET_KEY == "update-this-secret"

\* process.env.DEFAULT_REF || "https://megacloud.blog/", with the variable unset
DEFAULT_REF == "https://megacloud.blog/"

\* new NodeCache({ stdTTL: 600 }): seconds a handle record lives
stdTTL == 600

\* crypto.createHmac("sha256", key).update(message).digest("hex"): the MAC
\* is taken to be collision-free, a function of the key and the message text
HmacSha256Hex(key, message) == "mac-" \o key \o "-" \o message

\* uuidv4(): the n-th identifier the generator hands out
uuidv4(n) == "id" \o ToDec(n)

\* Math.floor(Date.now() / 1000) for the clock t (ms)
UnixSeconds(t) == t \div 1000

\* The signed triple and the URL text generateSignedUrl returns
SignedUrl(resourceId, signature, exp) ==
  [resourceId |-> resourceId, sig |-> signature, exp |-> exp,
   url |-> "/fetch/segment/resource?resourceId=" \o resourceId \o "&sig=" \o signature \o "&exp=" \o exp]

\* The signature over the template literal resourceId, exp, type
SignatureOf(resourceId, exp, type) == HmacSha256Hex(SECRET_KEY, resourceId \o exp \o type)

generateSignedUrlAt(resourceId, type, exp) == SignedUrl(resourceId, SignatureOf(resourceId, exp, type), exp)

\* express proxy, generateSignedUrl
generateSignedUrl(resourceId, type, t) == generateSignedUrlAt(resourceId, type, ToDec(UnixSeconds(t) + 600))

\* The length of the longest prefix of s made of decimal digits
RECURSIVE DigitRun(_)
DigitRun(s) == IF s = "" \/ ~IsDigit(Ch(s, 1)) THEN 0 ELSE 1 + DigitRun(Drop(s, 1))

\* parseInt(s, 10): [nan, val].  sign, unsigned: the sign and the text after
\* it; n: the length of the digits the text starts with
ParseDigits(sign, unsigned, n) ==
  IF n = 0 THEN [nan |-> TRUE, val |-> 0]
  ELSE [nan |-> FALSE, val |-> sign * DecValue(SubSeq(unsigned, 1, n))]

ParseUnsigned(sign, unsigned) == ParseDigits(sign, unsigned, DigitRun(unsigned))

ParseSigned(body) ==
  IF StartsWith(body, "-") THEN ParseUnsigned(-1, Drop(body, 1))
  ELSE IF StartsWith(body, "+") THEN ParseUnsigned(1, Drop(body, 1))
  ELSE ParseUnsigned(1, body)

ParseInt(s) == ParseSigned(Trim(s))

\* A variant of the expiry test that turns a handle down in the second of
\* its expiry; the redemption-window property must tell it apart
verifyAtStrict(resourceId, sig, exp, type, e, now_s) ==
  IF ~e.nan /\ e.val <= now_s THEN FALSE
  ELSE sig = SignatureOf(resourceId, exp, type)

\* express proxy, verifySignedUrl, lines 73-83: e is parseInt(exp, 10); a
\* comparison with NaN is false
verifyAt(resourceId, sig, exp, type, e, now_s) ==
  IF ~e.nan /\ e.val < now_s THEN FALSE
  ELSE sig = SignatureOf(resourceId, exp, type)

\* express proxy, verifySignedUrl
verifySignedUrl(resourceId, sig, exp, type, t) ==
  verifyAt(resourceId, sig, exp, type, ParseInt(exp), UnixSeconds(t))

\* cache.get(key) of node-cache: the record, while its lifetime has not passed
NodeCacheGet(handles, key, t) ==
  IF key \in DOMAIN handles /\ ~(handles[key].exp < t)
    THEN [hit |-> TRUE, url |-> handles[key].url, ref |-> handles[key].ref]
    ELSE [hit |-> FALSE, url |-> "", ref |-> ""]

\* express proxy, GET /fetch, lines 160-171: a media segment line
fetch_segmentLine(acc, absoluteUrl, refHeader, t, signed) ==
  [acc EXCEPT !.out = Append(@, signed.url),
              !.writes = Append(@, [key |-> signed.resourceId,
                                    entry |-> [url |-> absoluteUrl, ref |-> refHeader,
                                               exp |-> t + stdTTL * 1000]]),
              !.signed = Append(@, [resourceId |-> signed.resourceId, sig |-> signed.sig,
                                    exp |-> signed.exp])]

\* express proxy, GET /fetch, lines 151-171: a line that resolved
fetch_resolvedLine(acc, absoluteUrl, refHeader, t, id) ==
  IF EndsWith(absoluteUrl, ".m3u8")
    THEN [acc EXCEPT !.out = Append(@, "/fetch?url=" \o encodeURIComponent(absoluteUrl)
                                         \o "&ref=" \o encodeURIComponent(refHeader))]
  ELSE fetch_segmentLine(acc, absoluteUrl, refHeader, t,
                         generateSignedUrl(uuidv4(id + Len(acc.writes)), "segment", t))

\* express proxy, GET /fetch, line 149: new URL(trimmed, url) throws when
\* either text does not parse
fetch_urlLine(acc, base, absolute, refHeader, t, id) ==
  IF ~base.ok \/ ~absolute.ok THEN [acc EXCEPT !.ok = FALSE]
  ELSE fetch_resolvedLine(acc, Href(absolute), refHeader, t, id)

\* express proxy, GET /fetch, lines 141-172: the callback of lines.map
fetch_line(acc, line, trimmed, base, refHeader, t, id) ==
  IF trimmed = "" \/ StartsWith(trimmed, "#") THEN [acc EXCEPT !.out = Append(@, line)]
  ELSE fetch_urlLine(acc, base, URLParse(trimmed, base), refHeader, t, id)

\* The callback run over the lines in order.  acc = [ok, out, writes,
\* signed]: whether no line has thrown, the lines produced, the handle
\* records stored and the triples signed.
RECURSIVE fetch_transform(_, _, _, _, _, _)
fetch_transform(lines, acc, base, refHeader, t, id) ==
  IF Len(lines) = 0 \/ ~acc.ok THEN acc
  ELSE fetch_transform(Tail(lines),
                       fetch_line(acc, Head(lines), Trim(Head(lines)), base, refHeader, t, id),
                       base, refHeader, t, id)

\* res.send(text) of express
HtmlResponse(status, body) == [status |-> status, body |-> body, h |-> [NoHeaders EXCEPT !.ct = "text/html; charset=utf-8"]]

\* res.send(buffer) of express
BufferResponse(status, body) == [status |-> status, body |-> body, h |-> [NoHeaders EXCEPT !.ct = "application/octet-stream"]]

\* What GET /fetch hands back: the result and the triples it signed
Signing(res, signed) == res @@ [signed |-> signed]

FetchFailed == JsonResponse(500, "{\"error\":\"Failed to fetch M3U8 content\"}")

\* express proxy, GET /fetch, lines 174-190: the lines are transformed
fetch_transformed(done, trace) ==
  IF ~done.ok THEN Signing(Result(FetchFailed, trace, done.writes), done.signed)
  ELSE Signing(Result(Response(200, Join(done.out, "\n"),
                               [NoHeaders EXCEPT !.ct = "application/vnd.apple.mpegurl"]),
                      trace, done.writes),
               done.signed)

\* express proxy, GET /fetch, lines 118-172: the answer of axios.get
fetch_upstream(url, refHeader, response, t, id) ==
  IF response.kind # "response" THEN Signing(Result(FetchFailed, response.trace, <<>>), <<>>)
  ELSE IF ~StatusOk(response.status)
    THEN Signing(Result(HtmlResponse(response.status,
                          IF response.body # "" THEN response.body
                          ELSE "Upstream error while fetching playlist (" \o ToDec(response.status) \o ")"),
                        response.trace, <<>>), <<>>)
  ELSE IF ~StartsWith(response.body, "#EXTM3U")
    THEN Signing(Result(Response(200, response.body, [NoHeaders EXCEPT !.ct = "text/plain; charset=utf-8"]),
                        response.trace, <<>>), <<>>)
  ELSE fetch_transformed(
         fetch_transform(Split(response.body, "\n"),
                         [ok |-> TRUE, out |-> <<>>, writes |-> <<>>, signed |-> <<>>],
                         URLParse(url, FailURL), refHeader, t, id),
         response.trace)

\* express proxy, GET /fetch.  id: the number of the next identifier.
fetch_GET(r, n, t, id) ==
  IF r.url = ""
    THEN Signing(Result(JsonResponse(400, "{\"error\":\"No URL provided\"}"), <<>>, <<>>), <<>>)
  ELSE fetch_upstream(r.url, IF r.ref # "" THEN r.ref ELSE DEFAULT_REF, Fetch(r.url, n), t, id)

\* express proxy, GET /fetch/segment/resource, lines 224-276: the answer of
\* axios.get
segment_upstream(segmentResp, trace) ==
  IF segmentResp.kind # "response"
    THEN Result(JsonResponse(500, "{\"error\":\"fetch failed\"}"), trace \o segmentResp.trace, <<>>)
  ELSE IF ~StatusOk(segmentResp.status)
    THEN Result(BufferResponse(segmentResp.status, segmentResp.body), trace \o segmentResp.trace, <<>>)
  ELSE Result(Response(200, segmentResp.body,
                       [NoHeaders EXCEPT !.ct = IF segmentResp.ctype # "" THEN segmentResp.ctype
                                                ELSE "application/octet-stream"]),
              trace \o segmentResp.trace, <<>>)

\* express proxy, GET /fetch/segment/resource, lines 217-222: cached is
\* cache.get(resourceId)
segment_cached(cached, n) ==
  IF ~cached.hit \/ cached.url = ""
    THEN Result(JsonResponse(404, "{\"error\":\"Resource not found or expired\"}"),
                <<Ev("verify", "accepted")>>, <<>>)
  ELSE segment_upstream(Fetch(cached.url, n), <<Ev("verify", "accepted"), Ev("referer", cached.ref)>>)

\* A variant of the route that redeems a handle without verifying its
\* signature; the only-minted-handles property must tell it apart
fetch_segment_resourceUnverified(q, n, handles, t) ==
  IF q.resourceId = "" \/ q.sig = "" \/ q.exp = ""
    THEN Result(JsonResponse(400, "{\"error\":\"Missing signed URL params\"}"), <<>>, <<>>)
  ELSE segment_cached(NodeCacheGet(handles, q.resourceId, t), n)

\* A variant of the route that answers 404 to a handle whose signature has
\* expired or does not match; the status property must tell it apart
fetch_segment_resourceNotFound(q, n, handles, t) ==
  IF q.resourceId = "" \/ q.sig = "" \/ q.exp = ""
    THEN Result(JsonResponse(400, "{\"error\":\"Missing signed URL params\"}"), <<>>, <<>>)
  ELSE IF ~verifySignedUrl(q.resourceId, q.sig, q.exp, "segment", t)
    THEN Result(JsonResponse(404, "{\"error\":\"Resource not found or expired\"}"),
                <<Ev("verify", "rejected")>>, <<>>)
  ELSE segment_cached(NodeCacheGet(handles, q.resourceId, t), n)

\* express proxy, GET /fetch/segment/resource.  q = [resourceId, sig, exp]
fetch_segment_resource(q, n, handles, t) ==
  IF q.resourceId = "" \/ q.sig = "" \/ q.exp = ""
    THEN Result(JsonResponse(400, "{\"error\":\"Missing signed URL params\"}"), <<>>, <<>>)
  ELSE IF ~verifySignedUrl(q.resourceId, q.sig, q.exp, "segment", t)
    THEN Result(JsonResponse(400, "{\"error\":\"Invalid or expired signed URL\"}"),
                <<Ev("verify", "rejected")>>, <<>>)
  ELSE segment_cached(NodeCacheGet(handles, q.resourceId, t), n)

---------------------------------------------------------------------------
(* The state machine.  One request is in flight at a time:                 *)
(*   req     the request: [url, ref, host, range, q] ("" = absent); q is   *)
(*           the signed triple of a /fetch/segment/resource request        *)
(*   net     how the network answers the handler's outbound fetch          *)
(*   pc      "ready": the request waits for a handler; "done": answered    *)
(*   route   the handler that answered, resp its response, trace the steps *)
(*           it took (guard verdict, cache lookups, fetches, requests)     *)
(*   redis   the Upstash store of the home route                           *)
(*   rows    the m3u8_cache table of the supabase route                    *)
(*   handles the NodeCache of the express proxy, nextId its uuid counter,  *)
(*           minted the signed triples it has handed out                   *)
(*   now     the clock (ms), ticks the number of clock steps taken,        *)
(*           served the number of requests answered                        *)
(*   prev    the exchange answered before the one in flight                *)

VARIABLES route, req, net, resp, trace, pc, redis, rows, handles, nextId, minted, now, ticks, served,
          prev

\* The episode routes: the module state of lib/hianime.ts (_scraper,
\* _initializing and the outcome of each initialisation attempt), the
\* episode_sources table and the handler invocations, each at its await.
VARIABLES _scraper, _initializing, initOutcome, episode_sources, tasks

episodeVars == <<_scraper, _initializing, initOutcome, episode_sources, tasks>>

vars == <<route, req, net, resp, trace, pc, redis, rows, handles, nextId, minted, now, ticks, served, prev,
          _scraper, _initializing, initOutcome, episode_sources, tasks>>

\* An origin that answers 200 with the given body and Content-Type
OkNet(body, ctype) ==
  [hops |-> <<>>, kind |-> "ok", status |-> 200, stext |-> "OK", ctype |-> ctype,
   clen |-> ToDec(Len(body)), crange |-> "", aranges |-> "", body |-> body,
   size |-> Len(body), cacheOk |-> TRUE]

NoQuery == [resourceId |-> "", sig |-> "", exp |-> ""]

Request(url, ref, host, range) == [url |-> url, ref |-> ref, host |-> host, range |-> range, q |-> NoQuery]

NoResponse == Response(0, "", NoHeaders)

\* The clock at start (ms): half a second after a whole second
StartTime == 1001 * 1000 + 500

\* No exchange yet
NoExchange ==
  [req |-> Request("", "", "", ""), net |-> OkNet("", ""), route |-> "none",
   resp |-> NoResponse, trace |-> <<>>]

InitState ==
  /\ route = "none" /\ resp = NoResponse /\ trace = <<>> /\ pc = "ready" /\ prev = NoExchange
  /\ redis = EmptyStore /\ rows = EmptyStore /\ handles = EmptyStore
  /\ nextId = 1 /\ minted = {} /\ now = StartTime /\ ticks = 0 /\ served = 0
  /\ _scraper = 0 /\ _initializing = 0 /\ initOutcome = <<>>
  /\ episode_sources = {} /\ tasks = <<>>

\* The Upstash variables are set in the deployment of the home route
UpstashConfigured == TRUE

\* NODE_ENV is production and the Supabase client exists in the deployment
\* of the supabase route
SupabaseCacheEnabled == TRUE

\* The handler r answers the request in flight with the result res
Answered(res, r) ==
  /\ resp' = res.resp
  /\ trace' = res.trace
  /\ route' = r /\ pc' = "done" /\ served' = served + 1

HomeAnswered(res) == Answered(res, "home") /\ redis' = ApplyWrites(redis, res.writes)

\* A GET /api/m3u8 request answered by the home route
HomeGET ==
  /\ pc = "ready"
  /\ HomeAnswered(home_GET(req, net, redis, now, UpstashConfigured))
  /\ UNCHANGED <<req, net, rows, handles, nextId, minted, now, ticks, prev, episodeVars>>

SupabaseAnswered(res) == Answered(res, "supabase") /\ rows' = ApplyWrites(rows, res.writes)

\* A GET /api/m3u8 request answered by the supabase route
SupabaseGET ==
  /\ pc = "ready"
  /\ SupabaseAnswered(supabase_GET(req, net, rows, now, SupabaseCacheEnabled))
  /\ UNCHANGED <<req, net, redis, handles, nextId, minted, now, ticks, prev, episodeVars>>

\* A GET /api/m3u8 request answered by the content route
ContentGET ==
  /\ pc = "ready"
  /\ Answered(content_GET(req, net), "content")
  /\ UNCHANGED <<req, net, redis, rows, handles, nextId, minted, now, ticks, prev, episodeVars>>

FetchAnswered(res) ==
  /\ Answered(res, "express")
  /\ handles' = ApplyWrites(handles, res.writes)
  /\ nextId' = nextId + Len(res.writes)
  /\ minted' = minted \cup {res.signed[i] : i \in 1..Len(res.signed)}

\* A GET /fetch request answered by the express proxy
FetchGET ==
  /\ pc = "ready"
  /\ FetchAnswered(fetch_GET(req, net, now, nextId))
  /\ UNCHANGED <<req, net, redis, rows, now, ticks, prev, episodeVars>>

\* A GET /fetch/segment/resource request answered by the express proxy
SegmentResource ==
  /\ pc = "ready"
  /\ Answered(fetch_segment_resource(req.q, net, handles, now), "segment")
  /\ UNCHANGED <<req, net, redis, rows, handles, nextId, minted, now, ticks, prev, episodeVars>>

---------------------------------------------------------------------------
(* SpecRewrite: one playlist request, answered by one of the four          *)
(* handlers.  The origin answers 200 with a playlist body: the #EXTM3U     *)
(* header line followed by a text built of at most MaxBodyLex lexemes, or  *)
(* one of the scenario bodies.                                             *)

MaxBodyLex == 3

Lexemes == {"#", "\n", " ", "/", "a", "http://h"}

RECURSIVE LexTexts(_)
LexTexts(k) ==
  IF k = 0 THEN {""}
  ELSE LET shorter == LexTexts(k - 1)
       IN  shorter \cup {t \o l : t \in shorter, l \in Lexemes}

ScenarioBodies ==
  {"#EXTM3U\n#EXT-X-STREAM-INF:BANDWIDTH=800000\nlow/index.m3u8\n#EXT-X-STREAM-INF:BANDWIDTH=2000000\nhttps://cdn2.example/hi/index.m3u8\n",
   "#EXTM3U\n#EXT-X-KEY:METHOD=AES-128,URI=\"key.bin\",IV=0x0\n#EXTINF:4.0,\nseg1.ts\n",
   "#EXTM3U\n#EXT-X-MAP:URI=\"init.mp4\"\n#EXTINF:4.0,\n//cdn2.example/v/seg2.m4s\n",
   "#EXTM3U\n#EXT-X-MEDIA:TYPE=AUDIO,GROUP-ID=\"aud\",NAME=\"en\",URI=\"audio/en.m3u8\"\n/root/seg3.ts\n",
   "#EXTM3U\r\n#EXT-X-VERSION:3\r\n#EXTINF:4.0,\r\nseg4.ts?u=http://x/\r\n",
   "#EXTM3U\n  # indented \n../up/seg5.ts\n\n",
   "", "seg6.ts\n#EXTM3U\n"}

LexBodies == {"#EXTM3U\n" \o t : t \in LexTexts(MaxBodyLex)}

Bodies == LexBodies \cup ScenarioBodies

PlaylistUrls == {"https://cdn.example/a/master.m3u8", "http://v.example:8080/hls/live/index.m3u8?token=t1"}

Refs == {"", "https://r.example/", "https://r.example/watch?v=1&t=%20a b"}

ProxyHost == "proxy.example:3000"

MainPlaylistUrl == "https://cdn.example/a/master.m3u8"

RewriteInputs ==
  {<<Request(MainPlaylistUrl, r, ProxyHost, ""), b>> : r \in Refs, b \in Bodies}
    \cup {<<Request(u, r, ProxyHost, ""), b>> : u \in PlaylistUrls, r \in Refs, b \in ScenarioBodies}

InitRewrite ==
  /\ InitState
  /\ \E in \in RewriteInputs :
       /\ req = in[1]
       /\ net = OkNet(in[2], "application/vnd.apple.mpegurl")

NextRewrite == HomeGET \/ SupabaseGET \/ ContentGET \/ FetchGET

SpecRewrite == InitRewrite /\ [][NextRewrite]_vars

---------------------------------------------------------------------------
(* SpecGuard: one /api/m3u8 request for a target drawn from loopback,      *)
(* private, link-local, public and named hosts and from several schemes,   *)
(* answered by one of the three Next.js handlers, against an origin that   *)
(* answers directly, redirects, fails or times out.  IPv6 hosts are given  *)
(* in the serialised form the URL parser produces.                         *)

GuardHosts ==
  {"localhost", "LOCALHOST", "127.0.0.1", "127.1", "[::1]", "proxy.example", "0.0.0.0",
   "10.0.0.1", "169.254.169.254", "172.16.0.1", "172.31.255.254", "172.32.0.1",
   "192.168.1.1", "[fc00::1]", "[fd12:3456::1]", "[fe80::1]", "8.8.8.8", "cdn.example"}

GuardUrls ==
  {"http://" \o h \o "/hls/index.m3u8" : h \in GuardHosts}
    \cup {"https://cdn.example:8443/v/seg1.ts", "ftp://cdn.example/a.m3u8", "file:///etc/passwd",
          "data:text/plain,hi", "gopher://10.0.0.1/x", "not a url", ""}

GuardBody == "#EXTM3U\n#EXTINF:4.0,\nseg1.ts\n"

GuardNets ==
  {OkNet(GuardBody, "application/vnd.apple.mpegurl"),
   [OkNet(GuardBody, "application/vnd.apple.mpegurl") EXCEPT !.hops = <<"http://10.0.0.1/internal.m3u8">>],
   [OkNet(GuardBody, "application/vnd.apple.mpegurl")
      EXCEPT !.hops = <<"https://cdn2.example/moved.m3u8", "http://[::1]/internal.m3u8">>],
   [OkNet(GuardBody, "application/vnd.apple.mpegurl") EXCEPT !.hops = <<"ftp://cdn.example/a.m3u8">>],
   [OkNet("", "") EXCEPT !.kind = "timeout"],
   [OkNet("", "") EXCEPT !.kind = "error"],
   [OkNet("gone", "text/plain") EXCEPT !.status = 404, !.stext = "Not Found"]}

InitGuard ==
  /\ InitState
  /\ \E u \in GuardUrls, n \in GuardNets :
       /\ req = Request(u, "https://r.example/", ProxyHost, "")
       /\ net = n

NextGuard == HomeGET \/ SupabaseGET \/ ContentGET

SpecGuard == InitGuard /\ [][NextGuard]_vars

---------------------------------------------------------------------------
(* SpecFetch: the express proxy over time.  Playlist requests mint signed  *)
(* handles; later requests redeem a minted handle or a forged one, while   *)
(* the clock advances past the handles' expiry.                            *)

MaxRequests == 3

MaxTicks == 3

\* Clock steps (ms): six tenths of a second, and the step that takes the
\* clock at start to the first millisecond of the second 600 s later
TickSteps == {600, 599500}

FetchPlaylistBody == "#EXTM3U\n#EXTINF:4.0,\nseg1.ts\nlow/index.m3u8\n"

FetchRequests ==
  {Request("https://cdn.example/a/master.m3u8", "https://r.example/", ProxyHost, ""),
   Request("http://v.example:8080/hls/live/index.m3u8?token=t1", "", ProxyHost, "")}

\* The handles a client can present from a minted one: the handle itself,
\* a later expiry under the old signature, another resource under the old
\* signature, a made-up signature, and a handle with a parameter missing
Presentable(h) ==
  {h,
   [h EXCEPT !.exp = ToDec(DecValue(h.exp) + 600)],
   [h EXCEPT !.resourceId = "id0"],
   [h EXCEPT !.sig = "0000"],
   [h EXCEPT !.exp = "never"],
   [h EXCEPT !.sig = ""]}

\* The handle whose resourceId gives its last character to the expiry: the
\* text the signature is taken over stays the same
Respliced(h) ==
  [h EXCEPT !.resourceId = SubSeq(h.resourceId, 1, Len(h.resourceId) - 1),
            !.exp = Ch(h.resourceId, Len(h.resourceId)) \o h.exp]

Redeem(q) == [Request("", "", ProxyHost, "") EXCEPT !.q = q]

SegmentNet == OkNet("segment-bytes", "video/mp2t")

InitFetch ==
  /\ InitState
  /\ req \in FetchRequests
  /\ net = OkNet(FetchPlaylistBody, "application/vnd.apple.mpegurl")

\* The next request arrives: a playlist request, or a handle presented to
\* /fetch/segment/resource
NewPlaylistRequest ==
  /\ pc = "done" /\ served < MaxRequests
  /\ req' \in FetchRequests
  /\ net' = OkNet(FetchPlaylistBody, "application/vnd.apple.mpegurl")
  /\ pc' = "ready" /\ route' = "none" /\ resp' = NoResponse /\ trace' = <<>>
  /\ UNCHANGED <<redis, rows, handles, nextId, minted, now, ticks, served, prev, episodeVars>>

NewRedeemRequest ==
  /\ pc = "done" /\ served < MaxRequests
  /\ \E h \in minted : \E q \in Presentable(h) \cup {Respliced(h)} : req' = Redeem(q)
  /\ net' = SegmentNet
  /\ pc' = "ready" /\ route' = "none" /\ resp' = NoResponse /\ trace' = <<>>
  /\ UNCHANGED <<redis, rows, handles, nextId, minted, now, ticks, served, prev, episodeVars>>

\* Time passes between requests
Tick ==
  /\ pc = "done" /\ ticks < MaxTicks
  /\ \E d \in TickSteps : now' = now + d
  /\ ticks' = ticks + 1
  /\ UNCHANGED <<route, req, net, resp, trace, pc, redis, rows, handles, nextId, minted, served, prev, episodeVars>>

\* The router sends a request with a url parameter to GET /fetch and one
\* with handle parameters to GET /fetch/segment/resource
FetchPlaylist == req.q = NoQuery /\ FetchGET

FetchSegment == req.q # NoQuery /\ SegmentResource

NextFetch == FetchPlaylist \/ FetchSegment \/ NewPlaylistRequest \/ NewRedeemRequest \/ Tick

SpecFetch == InitFetch /\ [][NextFetch]_vars

---------------------------------------------------------------------------
(* SpecNested: one master playlist requested from GET /fetch of the        *)
(* express proxy.  The origin answers 200 with the #EXTM3U header line     *)
(* followed by at most MaxNestedLines lines that name nested playlists and *)
(* media segments, with and without a query string or a fragment.          *)

MaxNestedLines == 2

NestedLines ==
  {"low/index.m3u8", "low/index.m3u8?token=t1", "low/index.m3u8#t=1",
   "https://cdn2.example/hi/index.m3u8?sig=1&x=2", "seg1.ts", "seg1.ts?next=a.m3u8", "#EXT-X-ENDLIST"}

RECURSIVE NestedTexts(_)
NestedTexts(k) ==
  IF k = 0 THEN {""}
  ELSE LET shorter == NestedTexts(k - 1)
       IN  shorter \cup {t \o l \o "\n" : t \in shorter, l \in NestedLines}

InitNested ==
  /\ InitState
  /\ req \in FetchRequests
  /\ \E t \in NestedTexts(MaxNestedLines) : net = OkNet("#EXTM3U\n" \o t, "application/vnd.apple.mpegurl")

NextNested == FetchPlaylist

SpecNested == InitNested /\ [][NextNested]_vars

---------------------------------------------------------------------------
(* SpecCache: a sequence of GET /api/m3u8 requests for one playlist and    *)
(* one segment, each answered by the home route (Upstash cache) or by the  *)
(* supabase route (m3u8_cache table), with the clock stepping between      *)
(* them.  The origin's playlist moves on from one edition to the next; the *)
(* segment is sent whole, or as the part a Range request asks for; the     *)
(* cache calls of a request succeed or fail.                               *)

MaxCacheRequests == 2

MaxCacheTicks == 1

\* Clock steps (ms): inside the 10 s of the home route's playlist entries,
\* past the 15 s of the spec, the 15 minutes of PLAYLIST_CACHE_TTL_MS and
\* the millisecond after, and the 24 hours of the segment entries
CacheTickSteps == {9000, 16000, PLAYLIST_CACHE_TTL_MS, PLAYLIST_CACHE_TTL_MS + 1, 86400 * 1000}

CachePlaylistUrl == "https://cdn.example/live/index.m3u8"

CacheSegmentUrl == "https://cdn.example/live/seg7.ts"

\* Two editions of the live playlist
PlaylistEditions ==
  {"#EXTM3U\n#EXT-X-KEY:METHOD=AES-128,URI=\"k\\7.bin\"\r\n#EXTINF:4.0,\tlive\nseg7.ts\n",
   "#EXTM3U\n#EXTINF:4.0,\nseg8.ts\n"}

CacheSegmentBody == "segment-bytes"

CacheRange == "bytes=0-3"

\* The origin's answer to a segment request: the whole body
WholeNet == OkNet(CacheSegmentBody, "video/mp2t")

\* The origin's answer to the Range request: 206 and the first four bytes
PartialNet ==
  [OkNet(SubSeq(CacheSegmentBody, 1, 4), "video/mp2t") EXCEPT
     !.status = 206, !.stext = "Partial Content", !.aranges = "bytes",
     !.crange = "bytes 0-3/" \o ToDec(Len(CacheSegmentBody))]

\* A whole segment of the given byte length (the body stands for its bytes)
SizedNet(size) == [WholeNet EXCEPT !.size = size, !.clen = ToDec(size)]

\* The same answer in a request whose cache calls fail
CacheDown(n) == [n EXCEPT !.cacheOk = FALSE]

CacheExchange(r, n) == [req |-> r, net |-> n]

\* The requests and the origin's answers to them
CacheInputs ==
  {CacheExchange(Request(CachePlaylistUrl, "", ProxyHost, ""),
                 OkNet(b, "application/vnd.apple.mpegurl")) : b \in PlaylistEditions}
  \cup {CacheExchange(Request(CacheSegmentUrl, "", ProxyHost, ""), n) :
          n \in {WholeNet, SizedNet(TenMiB - 1), SizedNet(TenMiB), SizedNet(TenMiB + 1)}}
  \cup {CacheExchange(Request(CacheSegmentUrl, "", ProxyHost, CacheRange), PartialNet),
        CacheExchange(Request(CachePlaylistUrl, "", ProxyHost, CacheRange),
                      OkNet("#EXTM3U\n#EXTINF:4.0,\nseg8.ts\n", "application/vnd.apple.mpegurl")),
        CacheExchange(Request(CachePlaylistUrl, "", ProxyHost, ""),
                      CacheDown(OkNet("#EXTM3U\n#EXTINF:4.0,\nseg8.ts\n", "application/vnd.apple.mpegurl"))),
        CacheExchange(Request(CacheSegmentUrl, "", ProxyHost, ""), CacheDown(WholeNet))}

InitCache ==
  /\ InitState
  /\ \E i \in CacheInputs : req = i.req /\ net = i.net

\* The next request arrives; the exchange just answered is kept in prev
NewCacheRequest ==
  /\ pc = "done" /\ served < MaxCacheRequests
  /\ \E i \in CacheInputs : req' = i.req /\ net' = i.net
  /\ prev' = [req |-> req, net |-> net, route |-> route, resp |-> resp, trace |-> trace]
  /\ pc' = "ready" /\ route' = "none" /\ resp' = NoResponse /\ trace' = <<>>
  /\ UNCHANGED <<redis, rows, handles, nextId, minted, now, ticks, served, episodeVars>>

\* Time passes between requests
CacheTick ==
  /\ pc = "done" /\ ticks < MaxCacheTicks
  /\ \E d \in CacheTickSteps : now' = now + d
  /\ ticks' = ticks + 1
  /\ UNCHANGED <<route, req, net, resp, trace, pc, redis, rows, handles, nextId, minted, served, prev, episodeVars>>

NextCache == HomeGET \/ SupabaseGET \/ NewCacheRequest \/ CacheTick

SpecCache == InitCache /\ [][NextCache]_vars

---------------------------------------------------------------------------
(* SpecMirror: a sequence of requests for one playlist and one segment,    *)
(* each answered by the home, supabase or content route or by GET /fetch   *)
(* of the express proxy, where the origin answers 200 or an error status.  *)

MaxMirrorRequests == 2

\* An origin that answers with an error status and the given body
ErrorNet(status, stext, body) ==
  [OkNet(body, "text/html") EXCEPT !.status = status, !.stext = stext]

MirrorNets ==
  {ErrorNet(304, "Not Modified", ""),
   ErrorNet(403, "Forbidden", "<h1>403</h1>"), ErrorNet(404, "Not Found", ""),
   ErrorNet(500, "Internal Server Error", "#EXTM3U\nseg9.ts\n"),
   ErrorNet(503, "Service Unavailable", "busy")}

\* The requests and the origin's answers to them
MirrorInputs ==
  {CacheExchange(Request(CachePlaylistUrl, "", ProxyHost, ""), n) :
     n \in MirrorNets \cup {OkNet("#EXTM3U\n#EXTINF:4.0,\nseg8.ts\n", "application/vnd.apple.mpegurl")}}
  \cup {CacheExchange(Request(CacheSegmentUrl, "", ProxyHost, ""), n) : n \in MirrorNets \cup {WholeNet}}

InitMirror ==
  /\ InitState
  /\ \E i \in MirrorInputs : req = i.req /\ net = i.net

\* The next request arrives
NewMirrorRequest ==
  /\ pc = "done" /\ served < MaxMirrorRequests
  /\ \E i \in MirrorInputs : req' = i.req /\ net' = i.net
  /\ pc' = "ready" /\ route' = "none" /\ resp' = NoResponse /\ trace' = <<>>
  /\ UNCHANGED <<redis, rows, handles, nextId, minted, now, ticks, served, prev, episodeVars>>

NextMirror == HomeGET \/ SupabaseGET \/ ContentGET \/ FetchGET \/ NewMirrorRequest

SpecMirror == InitMirror /\ [][NextMirror]_vars

---------------------------------------------------------------------------
(* SpecClassify: requests for segments, a playlist and a file without a    *)
(* suffix, answered by the home or the content route, where the origin     *)
(* labels its 200 answer with a Content-Type that need not fit the suffix. *)

MaxClassifyRequests == 2

ClassifyUrls ==
  {"https://cdn.example/live/seg7.ts", "https://cdn.example/live/seg7.m4s",
   "https://cdn.example/live/init.mp4", CachePlaylistUrl, "https://cdn.example/live/chunk"}

ClassifyTypes == {"video/mp2t", "application/octet-stream", "text/plain", "application/vnd.apple.mpegurl", ""}

\* What the origin holds at each URL: a playlist, or bytes that read as lines
ClassifyBody(url) ==
  IF url = CachePlaylistUrl THEN "#EXTM3U\n#EXTINF:4.0,\nseg8.ts\n" ELSE "G@\nseg8.ts\n\nG@"

ClassifyInputs ==
  {CacheExchange(Request(u, "", ProxyHost, ""), OkNet(ClassifyBody(u), ct)) :
     u \in ClassifyUrls, ct \in ClassifyTypes}

InitClassify ==
  /\ InitState
  /\ \E i \in ClassifyInputs : req = i.req /\ net = i.net

\* The next request arrives
NewClassifyRequest ==
  /\ pc = "done" /\ served < MaxClassifyRequests
  /\ \E i \in ClassifyInputs : req' = i.req /\ net' = i.net
  /\ pc' = "ready" /\ route' = "none" /\ resp' = NoResponse /\ trace' = <<>>
  /\ UNCHANGED <<redis, rows, handles, nextId, minted, now, ticks, served, prev, episodeVars>>

NextClassify == HomeGET \/ ContentGET \/ NewClassifyRequest

SpecClassify == InitClassify /\ [][NextClassify]_vars

---------------------------------------------------------------------------
(* SpecSubtitle: one request for a WebVTT track, answered by the home or   *)
(* the content route.  The origin answers 200 with the WEBVTT header line  *)
(* followed by at most MaxCueLines lines of cues, styling and notes.       *)

MaxCueLines == 2

CueLines ==
  {"", "00:01.000 --> 00:04.000 line:0", "STYLE", "::cue { color: lime }", "  - Hello,\tworld  ",
   "https://cdn.example/t/1.jpg", "NOTE see ./a.png (../b.png) and http://x.example/c"}

RECURSIVE CueTexts(_)
CueTexts(k) ==
  IF k = 0 THEN {""}
  ELSE LET shorter == CueTexts(k - 1)
       IN  shorter \cup {t \o l \o "\n" : t \in shorter, l \in CueLines}

SubtitleUrls == {"https://cdn.example/sub/en.vtt", "https://cdn.example/sub/track?lang=en"}

SubtitleInputs ==
  {CacheExchange(Request(u, "", ProxyHost, ""), OkNet("WEBVTT\n\n" \o t, "text/vtt")) :
     u \in SubtitleUrls, t \in CueTexts(MaxCueLines)}

InitSubtitle ==
  /\ InitState
  /\ \E i \in SubtitleInputs : req = i.req /\ net = i.net

NextSubtitle == HomeGET \/ ContentGET

SpecSubtitle == InitSubtitle /\ [][NextSubtitle]_vars

---------------------------------------------------------------------------
(* SpecTimeout: a sequence of requests for one playlist and one segment,   *)
(* answered by the home or the supabase route, where the origin answers or *)
(* does not answer before the route's deadline.                            *)

MaxTimeoutRequests == 3

TimeoutNets == {[OkNet("", "") EXCEPT !.kind = "timeout"]}

TimeoutInputs ==
  {CacheExchange(Request(CachePlaylistUrl, "", ProxyHost, ""), n) :
     n \in TimeoutNets \cup {OkNet("#EXTM3U\n#EXTINF:4.0,\nseg8.ts\n", "application/vnd.apple.mpegurl")}}
  \cup {CacheExchange(Request(CacheSegmentUrl, "", ProxyHost, ""), n) : n \in TimeoutNets \cup {WholeNet}}

InitTimeout ==
  /\ InitState
  /\ \E i \in TimeoutInputs : req = i.req /\ net = i.net

\* The next request arrives
NewTimeoutRequest ==
  /\ pc = "done" /\ served < MaxTimeoutRequests
  /\ \E i \in TimeoutInputs : req' = i.req /\ net' = i.net
  /\ pc' = "ready" /\ route' = "none" /\ resp' = NoResponse /\ trace' = <<>>
  /\ UNCHANGED <<redis, rows, handles, nextId, minted, now, ticks, served, prev, episodeVars>>

NextTimeout == HomeGET \/ SupabaseGET \/ NewTimeoutRequest

SpecTimeout == InitTimeout /\ [][NextTimeout]_vars

---------------------------------------------------------------------------
(* SpecRef: a sequence of requests for one playlist under different ref    *)
(* parameters, answered by the home route (Upstash cache) or by the        *)
(* supabase route (m3u8_cache table).                                      *)

MaxRefRequests == 3

RefRefs == {"", "https://r.example/", "https://r.example/b.m3u8"}

\* A playlist URL that reads as CachePlaylistUrl followed by a ref
RefSplicedUrl == CachePlaylistUrl \o "::ref=https://r.example/b.m3u8"

RefBody == "#EXTM3U\n#EXTINF:4.0,\nseg8.ts\n#EXTINF:4.0,\nhttps://cdn2.example/seg9.ts\n"

RefInputs ==
  {CacheExchange(Request(CachePlaylistUrl, r, ProxyHost, ""), OkNet(RefBody, "application/vnd.apple.mpegurl")) :
     r \in RefRefs}
  \cup {CacheExchange(Request(RefSplicedUrl, "", ProxyHost, ""),
                      OkNet(RefBody, "application/vnd.apple.mpegurl"))}

InitRef ==
  /\ InitState
  /\ \E i \in RefInputs : req = i.req /\ net = i.net

\* The next request arrives
NewRefRequest ==
  /\ pc = "done" /\ served < MaxRefRequests
  /\ \E i \in RefInputs : req' = i.req /\ net' = i.net
  /\ prev' = [req |-> req, net |-> net, route |-> route, resp |-> resp, trace |-> trace]
  /\ pc' = "ready" /\ route' = "none" /\ resp' = NoResponse /\ trace' = <<>>
  /\ UNCHANGED <<redis, rows, handles, nextId, minted, now, ticks, served, episodeVars>>

NextRef == HomeGET \/ SupabaseGET \/ NewRefRequest

SpecRef == InitRef /\ [][NextRef]_vars

---------------------------------------------------------------------------
(* The episode routes: GET /api/episode/sources, POST /api/episode/prewarm *)
(* and GET /api/episode/servers, with the lazy scraper of lib/hianime.ts.  *)
(* null and the empty string are both written "": the handlers only test   *)
(* them with "!" and "||".                                                 *)

CACHE_TTL_SECONDS == 60 * 30

makeKey(episodeId, category, server) == episodeId \o "::" \o category \o "::" \o server

\* decodeURIComponent inside try/catch: the decoded text, and the raw text
\* when the decoder throws a URIError
decodeOrRaw(raw) == IF WellEscaped(raw) THEN PercentDecode(raw) ELSE raw

\* \d+ at the start of s: the longest run of digits
RECURSIVE LeadingDigits(_)
LeadingDigits(s) ==
  IF s # "" /\ IsDigit(Ch(s, 1)) THEN Ch(s, 1) \o LeadingDigits(Drop(s, 1)) ELSE ""

\* (\?ep=(\d+))? matched at rest, as "?ep=" and the digits, or nothing
EpSuffix(rest) ==
  IF StartsWith(rest, "?ep=") /\ LeadingDigits(Drop(rest, 4)) # ""
  THEN "?ep=" \o LeadingDigits(Drop(rest, 4)) ELSE ""

\* decoded.match(/^([^?]+)(\?ep=(\d+))?/) with q the place of the first "?"
\* (0: none): without a match, decoded.split("?")[0]
sanitizeMatch(decoded, q) ==
  IF q = 0 THEN decoded
  ELSE IF q = 1 THEN ""
  ELSE SubSeq(decoded, 1, q - 1) \o EpSuffix(Drop(decoded, q - 1))

sanitize(raw) ==
  IF raw = "" THEN "" ELSE sanitizeMatch(decodeOrRaw(raw), IndexOf(decodeOrRaw(raw), "?"))

\* The client's sanitizer is the same function under another name
sanitizeEpisodeId(raw) == sanitize(raw)

Pad2(n) == IF n < 10 THEN "0" \o ToDec(n) ELSE ToDec(n)

Pad3(n) == IF n < 100 THEN "0" \o Pad2(n) ELSE ToDec(n)

\* new Date(ms).toISOString() for an instant of January 1970
toISOString(ms) ==
  "1970-01-" \o Pad2(1 + ms \div 86400000) \o "T" \o Pad2((ms \div 3600000) % 24) \o ":"
    \o Pad2((ms \div 60000) % 60) \o ":" \o Pad2((ms \div 1000) % 60) \o "." \o Pad3(ms % 1000) \o "Z"

\* new Date(iso).getTime() for such a string
DateGetTime(iso) ==
  (DecValue(SubSeq(iso, 9, 10)) - 1) * 86400000 + DecValue(SubSeq(iso, 12, 13)) * 3600000
    + DecValue(SubSeq(iso, 15, 16)) * 60000 + DecValue(SubSeq(iso, 18, 19)) * 1000
    + DecValue(SubSeq(iso, 21, 23))

\* cached.fetchedAt ? new Date(cached.fetchedAt).getTime() : 0
fetchedAtMs(row) == IF row.fetchedAt = "" THEN 0 ELSE DateGetTime(row.fetchedAt)

\* ageSeconds < CACHE_TTL_SECONDS, with ageSeconds = (now - fetchedAtMs) / 1000
ageFresh(t, row) == t - fetchedAtMs(row) < CACHE_TTL_SECONDS * 1000

\* A row of the episode_sources table, and no row
Row(key, episodeId, category, server, data, fetchedAt) ==
  [compositeKey |-> key, animeEpisodeId |-> episodeId, category |-> category,
   server |-> server, data |-> data, fetchedAt |-> fetchedAt]

NoRow == Row("", "", "", "", "", "")

\* .select("*").eq("compositeKey", key).maybeSingle()
maybeSingle(table, key) ==
  IF \E r \in table : r.compositeKey = key
  THEN CHOOSE r \in table : r.compositeKey = key ELSE NoRow

\* .upsert(recordPayload, { onConflict: "compositeKey" })
upsert(table, payload) == {r \in table : r.compositeKey # payload.compositeKey} \cup {payload}

\* What scraper.getEpisodeSources answers at the instant t
SourcesAt(episodeId, server, category, t) ==
  "sources:" \o episodeId \o ":" \o server \o ":" \o category \o "@" \o ToDec(t)

\* The JSON responses of the episode routes: the HTTP status and the fields
\* of the body (bodyStatus is the body's "status")
NoReply ==
  [status |-> 0, error |-> "", bodyStatus |-> "", count |-> 0, data |-> "",
   fromCache |-> FALSE, stale |-> FALSE]

ErrorReply(status, error) == [NoReply EXCEPT !.status = status, !.error = error]

ScheduledReply(count) == [NoReply EXCEPT !.status = 200, !.bodyStatus = "scheduled", !.count = count]

DataReply(data, fromCache) == [NoReply EXCEPT !.status = 200, !.data = data, !.fromCache = fromCache]

\* An initialisation attempt that has not settled
Pending == 0 - 1

\* A variant of the getter without the test of _initializing: every caller
\* that finds no instance starts an attempt of its own; the single flight
\* must tell it apart
getHiAnimeScraperUnshared(s, init, outcomes) ==
  IF s # 0 THEN [promise |-> 0, value |-> s, _initializing |-> init, initOutcome |-> outcomes]
  ELSE [promise |-> Len(outcomes) + 1, value |-> 0, _initializing |-> Len(outcomes) + 1,
        initOutcome |-> Append(outcomes, Pending)]

\* getHiAnimeScraper() up to its return: promise is the attempt whose outcome
\* the caller awaits (0: the promise is already resolved with value)
getHiAnimeScraper(s, init, outcomes) ==
  IF s # 0 THEN [promise |-> 0, value |-> s, _initializing |-> init, initOutcome |-> outcomes]
  ELSE IF init # 0 THEN [promise |-> init, value |-> 0, _initializing |-> init, initOutcome |-> outcomes]
  ELSE [promise |-> Len(outcomes) + 1, value |-> 0, _initializing |-> Len(outcomes) + 1,
        initOutcome |-> Append(outcomes, Pending)]

\* A handler invocation: its position (pc), its locals and its response;
\* cached is what its last select answered with, after the set of the
\* invocations that had ended when it began
NewTask(kind, input, ids, category, server) ==
  [kind |-> kind, input |-> input, after |-> {}, pc |-> "done", ids |-> ids, cached |-> NoRow, category |-> category, server |-> server,
   episodeId |-> "", key |-> "", now |-> 0, promise |-> 0, scraper |-> 0,
   payload |-> NoRow, reply |-> NoReply, log |-> <<>>]

Logged(t, ev, arg) == [t EXCEPT !.log = Append(@, Ev(ev, arg))]

\* What a step leaves behind: the invocation and the module state of lib/hianime.ts
Outcome(t, init, outcomes) == [task |-> t, _initializing |-> init, initOutcome |-> outcomes]

\* The loop of prewarmEpisodes at its next id: ids that sanitize to nothing
\* are skipped, the first other one is looked up in the table
RECURSIVE prewarm_next(_)
prewarm_next(t) ==
  IF t.ids = <<>> THEN [t EXCEPT !.pc = "done"]
  ELSE IF sanitize(Head(t.ids)) = "" THEN prewarm_next([t EXCEPT !.ids = Tail(@)])
  ELSE [Logged(t, "select", makeKey(sanitize(Head(t.ids)), t.category, t.server))
          EXCEPT !.pc = "select", !.ids = Tail(@), !.episodeId = sanitize(Head(t.ids)),
                 !.key = makeKey(sanitize(Head(t.ids)), t.category, t.server)]

\* await getHiAnimeScraper() has answered with scraper
sources_scraper(t, scraper) ==
  IF scraper = 0 THEN [t EXCEPT !.pc = "done", !.scraper = 0, !.reply = ErrorReply(503, "scraper unavailable")]
  ELSE [Logged(t, "getEpisodeSources", t.key) EXCEPT !.pc = "scrape", !.scraper = scraper]

prewarm_scraper(t, scraper, tnow) ==
  IF scraper = 0 THEN [t EXCEPT !.pc = "done", !.scraper = 0]
  ELSE prewarm_next([t EXCEPT !.scraper = scraper, !.now = tnow])

\* The method of the hianime proxy that GET /api/anime/[id] calls: without a
\* scraper it throws, and the route answers what its catch answers
hianime_scraper(t, scraper) ==
  IF scraper = 0 THEN [t EXCEPT !.pc = "done", !.scraper = 0, !.reply = ErrorReply(500, "something went wrong")]
  ELSE [Logged(t, "getInfo", t.episodeId) EXCEPT !.pc = "info", !.scraper = scraper]

scraper_answered(t, scraper, tnow) ==
  IF t.kind \in {"sources", "pocket"} THEN sources_scraper(t, scraper)
  ELSE IF t.kind = "anime" THEN hianime_scraper(t, scraper)
  ELSE prewarm_scraper(t, scraper, tnow)

\* The invocation awaits getHiAnimeScraper(): a promise that is already
\* resolved answers before any other callback runs, a pending one when the
\* attempt settles
AwaitScraper(t, call, tnow) ==
  IF call.promise = 0
  THEN Outcome(scraper_answered(Logged(t, "getHiAnimeScraper", ""), call.value, tnow),
               call._initializing, call.initOutcome)
  ELSE Outcome([Logged(t, "getHiAnimeScraper", "") EXCEPT !.pc = "scraper", !.promise = call.promise],
               call._initializing, call.initOutcome)

\* A variant of the route that answers only when the job has ended: the
\* immediate answer must tell it apart
prewarm_scheduledAwaited(body, call, tnow) ==
  AwaitScraper(NewTask("prewarm", body, body.episodeIds,
                       IF body.category = "" THEN "sub" ELSE body.category,
                       IF body.server = "" THEN "hd-1" ELSE body.server), call, tnow)

\* POST /api/episode/prewarm once the job is started: the response is built
\* while prewarmEpisodes is at its first await
prewarm_scheduled(body, call, tnow) ==
  AwaitScraper([NewTask("prewarm", body, body.episodeIds,
                        IF body.category = "" THEN "sub" ELSE body.category,
                        IF body.server = "" THEN "hd-1" ELSE body.server)
                  EXCEPT !.reply = ScheduledReply(Len(body.episodeIds))], call, tnow)

prewarm_POST(body, s, init, outcomes, tnow) ==
  IF ~body.parsed
  THEN Outcome([NewTask("prewarm", body, <<>>, "", "") EXCEPT !.reply = ErrorReply(500, "something went wrong")],
               init, outcomes)
  ELSE IF ~body.isArray \/ body.episodeIds = <<>>
  THEN Outcome([NewTask("prewarm", body, <<>>, "", "")
                  EXCEPT !.reply = ErrorReply(400, "episodeIds must be a non-empty array")],
               init, outcomes)
  ELSE prewarm_scheduled(body, getHiAnimeScraper(s, init, outcomes), tnow)

\* url.searchParams.get(name) of the value as it is on the wire
RECURSIVE PlusToSpace(_)
PlusToSpace(s) ==
  IF s = "" THEN "" ELSE (IF Ch(s, 1) = "+" THEN " " ELSE Ch(s, 1)) \o PlusToSpace(Drop(s, 1))

searchParamsGet(wire) == PercentDecode(PlusToSpace(wire))

\* GET /api/episode/sources up to its select
sources_keyed(t, episodeId, tnow) ==
  IF episodeId = ""
  THEN [t EXCEPT !.reply = ErrorReply(400, "animeEpisodeId is required")]
  ELSE [Logged(t, "select", makeKey(episodeId, t.category, t.server))
          EXCEPT !.pc = "select", !.episodeId = episodeId, !.now = tnow,
                 !.key = makeKey(episodeId, t.category, t.server)]

sources_GET(query, tnow, ended) ==
  sources_keyed([NewTask("sources", query, <<>>,
                        IF searchParamsGet(query.category) = "" THEN "sub" ELSE searchParamsGet(query.category),
                        IF searchParamsGet(query.server) = "" THEN "hd-1" ELSE searchParamsGet(query.server))
                   EXCEPT !.after = ended],
                sanitize(searchParamsGet(query.animeEpisodeId)), tnow)

\* GET /api/anime/[id]: hianime.getInfo(id) asks for the scraper
anime_GET(id, s, init, outcomes, tnow) ==
  AwaitScraper([NewTask("anime", id, <<>>, "", "") EXCEPT !.episodeId = id],
               getHiAnimeScraper(s, init, outcomes), tnow)

\* scraper.getInfo has answered, or thrown
anime_info(t, ok) ==
  IF ok THEN [t EXCEPT !.pc = "done", !.reply = DataReply("info:" \o t.episodeId, FALSE)]
  ELSE [t EXCEPT !.pc = "done", !.reply = ErrorReply(500, "something went wrong")]

\* cached && cached.data, and the age under the TTL
cacheFresh(cached, tnow) == cached.compositeKey # "" /\ cached.data # "" /\ ageFresh(tnow, cached)

\* The select has answered with cached (NoRow: no row, or an error)
sources_selected(t, cached, s, init, outcomes, tnow) ==
  IF cacheFresh(cached, t.now)
  THEN Outcome([t EXCEPT !.pc = "done", !.cached = cached, !.reply = DataReply(cached.data, TRUE)],
               init, outcomes)
  ELSE AwaitScraper([t EXCEPT !.cached = cached], getHiAnimeScraper(s, init, outcomes), tnow)

prewarm_selected(t, cached) ==
  IF cacheFresh(cached, t.now) THEN prewarm_next([t EXCEPT !.cached = cached])
  ELSE [Logged(t, "getEpisodeSources", t.key) EXCEPT !.pc = "scrape", !.cached = cached]

\* scraper.getEpisodeSources has answered with data, or thrown
recordPayload(t, data, tnow) == Row(t.key, t.episodeId, t.category, t.server, data, toISOString(tnow))

scraped(t, data, tnow) ==
  [Logged(t, "upsert", t.key) EXCEPT !.pc = "upsert", !.payload = recordPayload(t, data, tnow)]

sources_scraped(t, ok, tnow) ==
  IF ~ok THEN [t EXCEPT !.pc = "done", !.reply = ErrorReply(502, "scraper error: scrape failed")]
  ELSE scraped(t, SourcesAt(t.episodeId, "hd-1", t.category, tnow), tnow)

prewarm_scraped(t, ok, tnow) ==
  IF ~ok THEN prewarm_next(t)
  ELSE scraped(t, SourcesAt(t.episodeId, t.server, t.category, tnow), tnow)

\* The upsert has answered
sources_upserted(t) == [t EXCEPT !.pc = "done", !.reply = DataReply(t.payload.data, FALSE)]

prewarm_upserted(t) == prewarm_next(t)

---------------------------------------------------------------------------
(* GET /api/episode/sources over PocketBase: the second route of           *)
(* src/src/app/api/episode/sources/route.ts (lines 137-288).  A record of  *)
(* the episode_sources collection is a row with the id PocketBase gave it. *)

Record(id, payload) == payload @@ [id |-> id]

NoRecord == Record(0, NoRow)

\* pb.collection("episode_sources").getFirstListItem(filter): the first of
\* the records of the key; it throws when there is none, and the route goes
\* on with null
getFirstListItem(collection, key) ==
  IF \E r \in collection : r.compositeKey = key
  THEN CHOOSE r \in collection :
         r.compositeKey = key /\ \A q \in collection : q.compositeKey = key => r.id <= q.id
  ELSE NoRecord

\* pb.collection("episode_sources").create(recordPayload)
create(collection, payload) == collection \cup {Record(Cardinality(collection) + 1, payload)}

\* pb.collection("episode_sources").update(id, recordPayload)
update(collection, id, payload) == {r \in collection : r.id # id} \cup {Record(id, payload)}

\* The route up to its lookup
pocket_keyed(t, episodeId, tnow) ==
  IF episodeId = ""
  THEN [t EXCEPT !.reply = ErrorReply(400, "animeEpisodeId is required")]
  ELSE [Logged(t, "getFirstListItem", makeKey(episodeId, t.category, t.server))
          EXCEPT !.pc = "find", !.episodeId = episodeId, !.now = tnow,
                 !.key = makeKey(episodeId, t.category, t.server)]

pocket_GET(query, tnow) ==
  pocket_keyed(NewTask("pocket", query, <<>>,
                       IF searchParamsGet(query.category) = "" THEN "sub" ELSE searchParamsGet(query.category),
                       IF searchParamsGet(query.server) = "" THEN "hd-1" ELSE searchParamsGet(query.server)),
               sanitize(searchParamsGet(query.animeEpisodeId)), tnow)

\* The lookup has answered with cached (NoRecord: null)
pocket_found(t, cached, s, init, outcomes, tnow) ==
  IF cacheFresh(cached, t.now)
  THEN Outcome([t EXCEPT !.pc = "done", !.cached = cached, !.reply = DataReply(cached.data, TRUE)],
               init, outcomes)
  ELSE AwaitScraper([t EXCEPT !.cached = cached], getHiAnimeScraper(s, init, outcomes), tnow)

\* scraper.getEpisodeSources has answered with data, or thrown
pocket_scraped(t, ok, tnow) ==
  IF ~ok THEN [t EXCEPT !.pc = "done", !.reply = ErrorReply(502, "scraper error: scrape failed")]
  ELSE [Logged(t, IF t.cached.id # 0 THEN "update" ELSE "create", t.key)
          EXCEPT !.pc = "save",
                 !.payload = recordPayload(t, SourcesAt(t.episodeId, "hd-1", t.category, tnow), tnow)]

\* The collection after the create or the update of the invocation t
pocket_save(collection, t) ==
  IF t.cached.id # 0 THEN update(collection, t.cached.id, t.payload) ELSE create(collection, t.payload)

---------------------------------------------------------------------------
(* The specification of the episode routes: requests arrive while earlier  *)
(* ones are at an await, and every await answers at any later moment.      *)

MaxEpisodeTasks == 2
MaxEpisodeTicks == 1

\* Clock steps (ms): a second, and a second less than the TTL
EpisodeTickSteps == {1000, CACHE_TTL_SECONDS * 1000 - 1000}

\* The bodies of POST /api/episode/prewarm
PrewarmBody(parsed, isArray, ids, category, server) ==
  [parsed |-> parsed, isArray |-> isArray, episodeIds |-> ids, category |-> category, server |-> server]

PrewarmBodies ==
  {PrewarmBody(TRUE, TRUE, <<"a?ep=1">>, "sub", ""),
   PrewarmBody(TRUE, TRUE, <<"a%3Fep%3D1&x=2", "?ep=3", "a?ep=1">>, "", "hd-1"),
   PrewarmBody(TRUE, TRUE, <<>>, "sub", "hd-1"),
   PrewarmBody(FALSE, FALSE, <<>>, "", "")}

\* The queries of GET /api/episode/sources, as they are on the wire
SourcesQueries ==
  {[animeEpisodeId |-> "a?ep=1", category |-> "", server |-> ""],
   [animeEpisodeId |-> "a%3Fep%3D1", category |-> "sub", server |-> "hd-1"],
   [animeEpisodeId |-> "", category |-> "", server |-> ""]}

\* The clock at the start of the episode routes (ms)
EpisodeStart == StartTime + 3600 * 1000

\* A row fetched an hour before the start
StaleRow ==
  Row(makeKey("a?ep=1", "sub", "hd-1"), "a?ep=1", "sub", "hd-1",
      SourcesAt("a?ep=1", "hd-1", "sub", EpisodeStart - 3600 * 1000), toISOString(EpisodeStart - 3600 * 1000))

\* A row fetched a second before the start
FreshRow ==
  Row(makeKey("a?ep=1", "sub", "hd-1"), "a?ep=1", "sub", "hd-1",
      SourcesAt("a?ep=1", "hd-1", "sub", EpisodeStart - 1000), toISOString(EpisodeStart - 1000))

InitEpisode ==
  /\ route = "none" /\ resp = NoResponse /\ trace = <<>> /\ pc = "done" /\ prev = NoExchange
  /\ req = Request("", "", "", "") /\ net = OkNet("", "")
  /\ redis = EmptyStore /\ rows = EmptyStore /\ handles = EmptyStore
  /\ nextId = 1 /\ minted = {} /\ now = EpisodeStart /\ ticks = 0 /\ served = 0
  /\ _scraper = 0 /\ _initializing = 0 /\ initOutcome = <<>> /\ tasks = <<>>
  /\ episode_sources \in {{}, {StaleRow}, {FreshRow}}

proxyVars == <<route, req, net, resp, trace, pc, redis, rows, handles, nextId, minted, served, prev>>

\* A step of the invocation i that leaves the table alone
Stepped(i, out) ==
  /\ tasks' = [tasks EXCEPT ![i] = out.task]
  /\ _initializing' = out._initializing
  /\ initOutcome' = out.initOutcome

Arrived(out) ==
  /\ tasks' = Append(tasks, out.task)
  /\ _initializing' = out._initializing
  /\ initOutcome' = out.initOutcome

\* POST /api/episode/prewarm: the handler runs to its return
PrewarmArrives(bodies, max) ==
  /\ Len(tasks) < max
  /\ \E body \in bodies : Arrived(prewarm_POST(body, _scraper, _initializing, initOutcome, now))
  /\ UNCHANGED <<proxyVars, now, ticks, _scraper, episode_sources>>

\* The invocations that have ended
Ended(ts) == {j \in DOMAIN ts : ts[j].pc = "done"}

\* GET /api/episode/sources: the handler runs to its select
SourcesArrives(queries, max) ==
  /\ Len(tasks) < max
  /\ \E query \in queries : tasks' = Append(tasks, sources_GET(query, now, Ended(tasks)))
  /\ UNCHANGED <<proxyVars, now, ticks, _scraper, _initializing, initOutcome, episode_sources>>

\* The select of the invocation i answers: with the row of the key, or with
\* an error
SelectAnswers(oks) ==
  /\ \E i \in DOMAIN tasks, ok \in oks :
       /\ tasks[i].pc = "select"
       /\ IF tasks[i].kind = "sources"
          THEN Stepped(i, sources_selected(tasks[i],
                                           IF ok THEN maybeSingle(episode_sources, tasks[i].key) ELSE NoRow,
                                           _scraper, _initializing, initOutcome, now))
          ELSE Stepped(i, Outcome(prewarm_selected(tasks[i],
                                                   IF ok THEN maybeSingle(episode_sources, tasks[i].key) ELSE NoRow),
                                  _initializing, initOutcome))
  /\ UNCHANGED <<proxyVars, now, ticks, _scraper, episode_sources>>

\* The initialisation attempt n settles: the import and the constructor
\* have succeeded, or one of them has thrown; the callers that await the
\* attempt go on before any other callback runs
Resumed(ts, n, scraper, tnow) ==
  [i \in DOMAIN ts |-> IF ts[i].pc = "scraper" /\ ts[i].promise = n
                       THEN scraper_answered(ts[i], scraper, tnow) ELSE ts[i]]

InitAnswers(oks) ==
  /\ \E n \in DOMAIN initOutcome, ok \in oks :
       /\ initOutcome[n] = Pending
       /\ _scraper' = IF ok THEN n ELSE 0
       /\ initOutcome' = [initOutcome EXCEPT ![n] = IF ok THEN n ELSE 0]
       /\ tasks' = Resumed(tasks, n, IF ok THEN n ELSE 0, now)
  /\ _initializing' = 0
  /\ UNCHANGED <<proxyVars, now, ticks, episode_sources>>

\* scraper.getEpisodeSources answers in the invocation i, or throws
ScrapeAnswers(oks) ==
  /\ \E i \in DOMAIN tasks, ok \in oks :
       /\ tasks[i].pc = "scrape"
       /\ tasks' = [tasks EXCEPT ![i] = IF tasks[i].kind = "sources"
                                        THEN sources_scraped(tasks[i], ok, now)
                                        ELSE IF tasks[i].kind = "pocket"
                                        THEN pocket_scraped(tasks[i], ok, now)
                                        ELSE prewarm_scraped(tasks[i], ok, now)]
  /\ UNCHANGED <<proxyVars, now, ticks, _scraper, _initializing, initOutcome, episode_sources>>

\* The upsert of the invocation i answers: the row is written, or the
\* table has refused it
UpsertAnswers(oks) ==
  /\ \E i \in DOMAIN tasks, ok \in oks :
       /\ tasks[i].pc = "upsert"
       /\ episode_sources' = IF ok THEN upsert(episode_sources, tasks[i].payload) ELSE episode_sources
       /\ tasks' = [tasks EXCEPT ![i] = IF tasks[i].kind = "sources"
                                        THEN sources_upserted(tasks[i])
                                        ELSE prewarm_upserted(tasks[i])]
  /\ UNCHANGED <<proxyVars, now, ticks, _scraper, _initializing, initOutcome>>

ClockAdvances(steps, max) ==
  /\ ticks < max
  /\ \E d \in steps : now' = now + d
  /\ ticks' = ticks + 1
  /\ UNCHANGED <<proxyVars, episodeVars>>

\* GET /api/anime/[id]: the handler runs to the await of the scraper
AnimeArrives(ids, max) ==
  /\ Len(tasks) < max
  /\ \E id \in ids : Arrived(anime_GET(id, _scraper, _initializing, initOutcome, now))
  /\ UNCHANGED <<proxyVars, now, ticks, _scraper, episode_sources>>

\* scraper.getInfo answers in the invocation i, or throws
InfoAnswers(oks) ==
  /\ \E i \in DOMAIN tasks, ok \in oks :
       /\ tasks[i].pc = "info"
       /\ tasks' = [tasks EXCEPT ![i] = anime_info(tasks[i], ok)]
  /\ UNCHANGED <<proxyVars, now, ticks, _scraper, _initializing, initOutcome, episode_sources>>

\* GET /api/episode/sources over PocketBase: the handler runs to its lookup
PocketArrives(queries, max) ==
  /\ Len(tasks) < max
  /\ \E query \in queries : tasks' = Append(tasks, pocket_GET(query, now))
  /\ UNCHANGED <<proxyVars, now, ticks, _scraper, _initializing, initOutcome, episode_sources>>

\* The lookup of the invocation i answers
FindAnswers ==
  /\ \E i \in DOMAIN tasks :
       /\ tasks[i].pc = "find"
       /\ Stepped(i, pocket_found(tasks[i], getFirstListItem(episode_sources, tasks[i].key),
                                  _scraper, _initializing, initOutcome, now))
  /\ UNCHANGED <<proxyVars, now, ticks, _scraper, episode_sources>>

\* The create or the update of the invocation i answers: the record is
\* written, or the collection has refused it
SaveAnswers(oks) ==
  /\ \E i \in DOMAIN tasks, ok \in oks :
       /\ tasks[i].pc = "save"
       /\ episode_sources' = IF ok THEN pocket_save(episode_sources, tasks[i]) ELSE episode_sources
       /\ tasks' = [tasks EXCEPT ![i] = sources_upserted(tasks[i])]
  /\ UNCHANGED <<proxyVars, now, ticks, _scraper, _initializing, initOutcome>>

PrewarmPOST == PrewarmArrives(PrewarmBodies, MaxEpisodeTasks)

SourcesGET == SourcesArrives(SourcesQueries, MaxEpisodeTasks)

SelectReturns == SelectAnswers(BOOLEAN)

InitSettles == InitAnswers(BOOLEAN)

ScrapeReturns == ScrapeAnswers(BOOLEAN)

UpsertReturns == UpsertAnswers(BOOLEAN)

EpisodeTick == ClockAdvances(EpisodeTickSteps, MaxEpisodeTicks)

NextEpisode ==
  \/ PrewarmPOST \/ SourcesGET \/ SelectReturns \/ InitSettles
  \/ ScrapeReturns \/ UpsertReturns \/ EpisodeTick

SpecEpisode == InitEpisode /\ [][NextEpisode]_vars

\* The same routes with three requests for one key, a table that answers
\* and a scraper that works: what overlapping writers do to a row
MaxRaceTasks == 3
MaxRaceTicks == 2

RaceBodies == {PrewarmBody(TRUE, TRUE, <<"a?ep=1">>, "sub", "hd-1")}

RaceQueries == {[animeEpisodeId |-> "a?ep=1", category |-> "sub", server |-> "hd-1"]}

InitRace == InitEpisode /\ episode_sources = {}

RacePOST == PrewarmArrives(RaceBodies, MaxRaceTasks)

RaceGET == SourcesArrives(RaceQueries, MaxRaceTasks)

RaceSelect == SelectAnswers({TRUE})

RaceInit == InitAnswers({TRUE})

RaceScrape == ScrapeAnswers({TRUE})

RaceUpsert == UpsertAnswers({TRUE})

RaceTick == ClockAdvances(EpisodeTickSteps, MaxRaceTicks)

NextRace == RacePOST \/ RaceGET \/ RaceSelect \/ RaceInit \/ RaceScrape \/ RaceUpsert \/ RaceTick

SpecRace == InitRace /\ [][NextRace]_vars

\* The routes that need the scraper while its initialisation fails and is
\* tried again: GET /api/episode/sources and GET /api/anime/[id]
MaxInitTasks == 3

InitQueries == {[animeEpisodeId |-> "a?ep=1", category |-> "", server |-> ""]}

AnimeIds == {"a", "b"}

InitRetry == InitEpisode /\ episode_sources = {StaleRow}

RetryGET == SourcesArrives(InitQueries, MaxInitTasks)

RetryAnime == AnimeArrives(AnimeIds, MaxInitTasks)

RetrySelect == SelectAnswers({TRUE})

RetryInit == InitAnswers(BOOLEAN)

RetryScrape == ScrapeAnswers(BOOLEAN)

RetryUpsert == UpsertAnswers({TRUE})

RetryInfo == InfoAnswers(BOOLEAN)

NextRetry ==
  RetryGET \/ RetryAnime \/ RetrySelect \/ RetryInit \/ RetryScrape \/ RetryUpsert \/ RetryInfo

SpecRetry == InitRetry /\ [][NextRetry]_vars

\* The PocketBase route: requests for two episodes, while earlier requests
\* are at an await
MaxPocketTasks == 2

PocketQueries ==
  {[animeEpisodeId |-> "a?ep=1", category |-> "", server |-> ""],
   [animeEpisodeId |-> "a%3Fep%3D1", category |-> "sub", server |-> "hd-1"],
   [animeEpisodeId |-> "b?ep=2", category |-> "dub", server |-> ""]}

InitPocket == InitEpisode /\ episode_sources = {}

PocketGET == PocketArrives(PocketQueries, MaxPocketTasks)

PocketInit == InitAnswers({TRUE})

PocketScrape == ScrapeAnswers(BOOLEAN)

PocketSave == SaveAnswers(BOOLEAN)

PocketTick == ClockAdvances({CACHE_TTL_SECONDS * 1000}, 1)

NextPocket == PocketGET \/ FindAnswers \/ PocketInit \/ PocketScrape \/ PocketSave \/ PocketTick

SpecPocket == InitPocket /\ [][NextPocket]_vars

\* The episode routes asked for a server other than the default one
MaxServerTasks == 2

ServerQueries ==
  {[animeEpisodeId |-> "a?ep=1", category |-> "", server |-> "hd-2"],
   [animeEpisodeId |-> "a?ep=1", category |-> "dub", server |-> ""]}

ServerBodies ==
  {PrewarmBody(TRUE, TRUE, <<"a?ep=1", "b?ep=2">>, "sub", "hd-2"),
   PrewarmBody(TRUE, TRUE, <<"a?ep=1">>, "dub", "")}

InitServer == InitEpisode /\ episode_sources = {}

ServerPOST == PrewarmArrives(ServerBodies, MaxServerTasks)

ServerGET == SourcesArrives(ServerQueries, MaxServerTasks)

ServerSelect == SelectAnswers({TRUE})

ServerInit == InitAnswers({TRUE})

ServerScrape == ScrapeAnswers({TRUE})

ServerUpsert == UpsertAnswers({TRUE})

NextServer == ServerPOST \/ ServerGET \/ ServerSelect \/ ServerInit \/ ServerScrape \/ ServerUpsert

SpecServer == InitServer /\ [][NextServer]_vars

---------------------------------------------------------------------------
(* The Upstash client of src/src/lib/redis.ts: getCached and setCached,    *)
(* each a call of upstashFetch, which sends its request again when the     *)
(* request has failed.  A call is [op, pc, attempt, requests, answers,     *)
(* outcome, err, result]: attempt is the parameter of the upstashFetch     *)
(* that is at its await, requests the number of fetches sent, answers the  *)
(* answers they got, outcome how upstashFetch ended and err what it threw. *)

\* The answers of fetch: a 200 whose body is JSON, a 200 whose body is
\* not, an error status, and a rejection
UpstashAnswer(kind, status) == [kind |-> kind, status |-> status]

UpstashAnswers == {UpstashAnswer("ok", 200), UpstashAnswer("notjson", 200),
                   UpstashAnswer("status", 500), UpstashAnswer("status", 429),
                   UpstashAnswer("rejected", 0)}

\* res.ok
UpstashOk(answer) == answer.kind \in {"ok", "notjson"}

\* The message of the error upstashFetch's try block throws for the answer
UpstashError(answer) ==
  IF answer.kind = "rejected" THEN "fetch failed"
  ELSE "Upstash request failed with status " \o ToDec(answer.status) \o ": error"

\* redis.ts, upstashFetch, lines 41-60: the call with the parameter attempt
\* runs to the await of its fetch
upstashFetch(call, attempt) ==
  [call EXCEPT !.pc = "fetch", !.attempt = attempt, !.requests = @ + 1]

\* getCached and setCached, from the call of upstashFetch on
UpstashCall(op) ==
  upstashFetch([op |-> op, pc |-> "start", attempt |-> 0, requests |-> 0, answers |-> <<>>,
                outcome |-> "", err |-> "", result |-> ""], 1)

\* redis.ts, getCached lines 95-122 and setCached lines 204-210: upstashFetch
\* has returned the response, or thrown err
cache_returned(call, answer) ==
  [call EXCEPT !.pc = "done", !.outcome = "returned",
               !.result = IF call.op = "setCached" THEN "void"
                          ELSE IF answer.kind = "ok" THEN "value" ELSE "null"]

cache_thrown(call, err) ==
  [call EXCEPT !.pc = "done", !.outcome = "thrown", !.err = err,
               !.result = IF call.op = "setCached" THEN "void" ELSE "null"]

\* A variant of the catch that sends the request once more after the third
\* failure; the bound on the attempts must tell it apart
upstashFetch_catchFourth(call, err) ==
  IF call.attempt <= 3 THEN upstashFetch(call, call.attempt + 1)
  ELSE cache_thrown(call, err)

\* redis.ts, upstashFetch, lines 73-81: the catch
upstashFetch_catch(call, err) ==
  IF call.attempt < 3 THEN upstashFetch(call, call.attempt + 1)
  ELSE cache_thrown(call, err)

\* redis.ts, upstashFetch, lines 61-72: the fetch has answered
upstashFetch_answered(call, answer) ==
  IF UpstashOk(answer) THEN cache_returned(call, answer)
  ELSE upstashFetch_catch(call, UpstashError(answer))

MaxUpstashCalls == 2

\* getCached or setCached is called while earlier calls are at their await
CacheCalled ==
  /\ Len(tasks) < MaxUpstashCalls
  /\ \E op \in {"getCached", "setCached"} : tasks' = Append(tasks, UpstashCall(op))
  /\ UNCHANGED <<proxyVars, now, ticks, _scraper, _initializing, initOutcome, episode_sources>>

\* The fetch of the call i settles
UpstashSettles ==
  /\ \E i \in DOMAIN tasks, answer \in UpstashAnswers :
       /\ tasks[i].pc = "fetch"
       /\ tasks' = [tasks EXCEPT ![i] = upstashFetch_answered([tasks[i] EXCEPT !.answers = Append(@, answer)],
                                                              answer)]
  /\ UNCHANGED <<proxyVars, now, ticks, _scraper, _initializing, initOutcome, episode_sources>>

InitUpstash == InitState /\ req = Request("", "", "", "") /\ net = OkNet("", "")

NextUpstash == CacheCalled \/ UpstashSettles

\* Every fetch settles: it answers, or it is rejected when the connection
\* fails or a timeout of the HTTP client passes
SpecUpstash == InitUpstash /\ [][NextUpstash]_vars /\ WF_vars(UpstashSettles)

---------------------------------------------------------------------------
(* The path of an episode id from the client to GET /api/episode/servers:  *)
(* getEpisodeServers cleans the id and sends it as a query parameter, the  *)
(* route reads the parameter and sanitizes it again.                       *)

\* The ids given to useGetEpisodeServers: a base and what follows it
RawBases == {"a", "one-piece-100", "a%2541", "a%3F", "%zz", ""}

RawTails ==
  {"", "?ep=1", "?ep=12x", "?ep=", "%3Fep%3D7", "?x=1&ep=2", "%253Fep%253D9", "?ep=3&x=4"}

RawIds == {b \o t : b \in RawBases, t \in RawTails} \ {""}

\* A lookup of the servers of an episode, at its stage on the path
NewLookup(raw) ==
  [kind |-> "servers", stage |-> "raw", raw |-> raw, cleanId |-> "", wire |-> "",
   animeEpisodeIdRaw |-> "", animeEpisodeId |-> "", reply |-> NoReply]

\* const cleanId = sanitizeEpisodeId(episodeId) || episodeId
getEpisodeServers_cleanId(t) ==
  [t EXCEPT !.stage = "clean",
            !.cleanId = IF sanitizeEpisodeId(t.raw) = "" THEN t.raw ELSE sanitizeEpisodeId(t.raw)]

\* api.get("/api/episode/servers", { params: { animeEpisodeId: cleanId } }):
\* the value is percent-encoded into the query
getEpisodeServers_sent(t) == [t EXCEPT !.stage = "sent", !.wire = encodeURIComponent(t.cleanId)]

\* GET /api/episode/servers up to its cache key
servers_sanitized(t, animeEpisodeId) ==
  IF animeEpisodeId = ""
  THEN [t EXCEPT !.stage = "done", !.reply = ErrorReply(400, "invalid animeEpisodeId")]
  ELSE [t EXCEPT !.stage = "keyed", !.animeEpisodeId = animeEpisodeId]

servers_read(t, animeEpisodeIdRaw) ==
  IF animeEpisodeIdRaw = ""
  THEN [t EXCEPT !.stage = "done", !.reply = ErrorReply(400, "animeEpisodeId is required")]
  ELSE servers_sanitized([t EXCEPT !.animeEpisodeIdRaw = animeEpisodeIdRaw], sanitize(animeEpisodeIdRaw))

servers_GET(t) == servers_read(t, searchParamsGet(t.wire))

InitSanitize ==
  /\ route = "none" /\ resp = NoResponse /\ trace = <<>> /\ pc = "done" /\ prev = NoExchange
  /\ req = Request("", "", "", "") /\ net = OkNet("", "")
  /\ redis = EmptyStore /\ rows = EmptyStore /\ handles = EmptyStore
  /\ nextId = 1 /\ minted = {} /\ now = EpisodeStart /\ ticks = 0 /\ served = 0
  /\ _scraper = 0 /\ _initializing = 0 /\ initOutcome = <<>> /\ episode_sources = {}
  /\ \E raw \in RawIds : tasks = <<NewLookup(raw)>>

LookupStep(stage, t) ==
  /\ tasks[1].stage = stage
  /\ tasks' = <<t>>
  /\ UNCHANGED <<proxyVars, now, ticks, _scraper, _initializing, initOutcome, episode_sources>>

ClientCleans == LookupStep("raw", getEpisodeServers_cleanId(tasks[1]))

ClientSends == LookupStep("clean", getEpisodeServers_sent(tasks[1]))

ServersGET == LookupStep("sent", servers_GET(tasks[1]))

NextSanitize == ClientCleans \/ ClientSends \/ ServersGET

SpecSanitize == InitSanitize /\ [][NextSanitize]_vars

---------------------------------------------------------------------------
(* Properties of the rewrite (SpecRewrite).  The playlist the origin sent  *)
(* is net.body, the playlist the handler answered with is resp.body.       *)

\* A handler has answered 200: the response body is its rewrite of net.body
Rewritten(routes) == pc = "done" /\ route \in routes /\ resp.status = 200

NextRoutes == {"home", "supabase", "content"}

\* The lines of a playlist: terminated by LF or CRLF (RFC 8216, 4.1)
InLines == SplitLines(net.body)

OutLines == SplitLines(resp.body)

IsUriLine(l) == Trim(l) # "" /\ ~StartsWith(Trim(l), "#")

ProxyPrefix == "/api/m3u8?url="

HasRef(l) == Includes(l, "&ref=")

\* The decoded ref parameter of a proxy URL
RefOf(l) == PercentDecode(Drop(l, IndexOf(l, "&ref=") + 4))

\* The decoded url parameter of a proxy URL that starts with prefix
UrlOf(l, prefix) ==
  PercentDecode(SubSeq(l, Len(prefix) + 1, IF HasRef(l) THEN IndexOf(l, "&ref=") - 1 ELSE Len(l)))

\* The target of the request in flight
Target == URLParse(req.url, FailURL)

\* C1: after the rewrite of the home, content and supabase routes every
\* output line that is neither blank nor a comment is a proxy-endpoint URL
\* /api/m3u8?url=...; no URI line is left as an origin reference.
C1_EveryUriLineProxied ==
  Rewritten(NextRoutes) =>
    \A i \in DOMAIN OutLines : IsUriLine(OutLines[i]) => StartsWith(OutLines[i], ProxyPrefix)

EffectiveRef(default) == IF req.ref # "" THEN req.ref ELSE default

\* The handle records the express proxy stored for the line l
StoredFor(l) ==
  {k \in DOMAIN handles : StartsWith(l, "/fetch/segment/resource?resourceId=" \o k \o "&sig=")}

\* C3 (as the code has it): a line rewritten by the home or content route
\* carries a ref parameter that decodes to the request's ref, or to the
\* route's default referer when the request has none; the supabase route
\* carries the request's ref and no ref parameter when there is none; the
\* express proxy carries the ref (or its default) on nested-playlist lines
\* only, and keeps it in the handle record of a segment line, whose URL has
\* no ref parameter.
C3_RefCarried ==
  Rewritten(NextRoutes \cup {"express"}) =>
    \A i \in DOMAIN OutLines :
      /\ (route \in {"home", "content"} /\ StartsWith(OutLines[i], ProxyPrefix))
           => HasRef(OutLines[i]) /\ RefOf(OutLines[i]) = EffectiveRef(HomeDefaultRef)
      /\ (route = "supabase" /\ StartsWith(OutLines[i], ProxyPrefix))
           => IF req.ref # "" THEN HasRef(OutLines[i]) /\ RefOf(OutLines[i]) = req.ref
              ELSE ~HasRef(OutLines[i])
      /\ (route = "express" /\ StartsWith(OutLines[i], "/fetch?url="))
           => HasRef(OutLines[i]) /\ RefOf(OutLines[i]) = EffectiveRef(DEFAULT_REF)
      /\ (route = "express" /\ StartsWith(OutLines[i], "/fetch/segment/resource?"))
           => /\ ~Includes(OutLines[i], "ref=")
              /\ StoredFor(OutLines[i]) # {}
              /\ \A k \in StoredFor(OutLines[i]) : handles[k].ref = EffectiveRef(DEFAULT_REF)

\* A supabase rewrite for a ref with characters that need escaping
C3_Witness ==
  /\ Rewritten({"supabase"})
  /\ req.ref = "https://r.example/watch?v=1&t=%20a b"
  /\ \E i \in DOMAIN OutLines :
       StartsWith(OutLines[i], ProxyPrefix) /\ HasRef(OutLines[i]) /\ RefOf(OutLines[i]) = req.ref

\* C3 as stated: every URI the rewrite produces includes a ref parameter
\* whose decoded value equals the request's ref.
C3_EveryUriCarriesRef ==
  Rewritten(NextRoutes \cup {"express"}) =>
    \A i \in DOMAIN OutLines :
      (StartsWith(OutLines[i], ProxyPrefix) \/ StartsWith(OutLines[i], "/fetch"))
        => HasRef(OutLines[i]) /\ RefOf(OutLines[i]) = req.ref

\* resolve(base, href) of the specification: an absolute href is kept,
\* anything else is resolved against the playlist URL
SpecResolve(base, href) ==
  IF StartsWith(href, "http://") \/ StartsWith(href, "https://") THEN [ok |-> TRUE, href |-> href]
  ELSE [ok |-> URLParse(href, base).ok, href |-> Href(URLParse(href, base))]

\* C4: for every URI line of the input that resolves, the url parameter of
\* the rewritten line decodes to resolve(base, href), in the home and the
\* content route.
C4_ResolutionCorrect ==
  Rewritten({"home", "content"}) =>
    /\ Len(OutLines) = Len(InLines)
    /\ \A i \in DOMAIN InLines :
         (IsUriLine(InLines[i]) /\ SpecResolve(Target, Trim(InLines[i])).ok)
           => /\ StartsWith(OutLines[i], ProxyPrefix)
              /\ UrlOf(OutLines[i], ProxyPrefix) = SpecResolve(Target, Trim(InLines[i])).href

IsUriDirective(l) ==
  /\ StartsWith(l, "#EXT-X-KEY:") \/ StartsWith(l, "#EXT-X-MAP:") \/ StartsWith(l, "#EXT-X-MEDIA:")
  /\ Includes(l, "URI=\"")

\* The text of a directive up to and including URI=", its quoted value, and
\* the text from the closing quote on
UriHead(l) == SubSeq(l, 1, IndexOf(l, "URI=\"") + 4)

UriValue(l) == SubSeq(Drop(l, Len(UriHead(l))), 1, IndexOf(Drop(l, Len(UriHead(l))), "\"") - 1)

UriTail(l) == Drop(l, Len(UriHead(l)) + Len(UriValue(l)))

\* C5: a directive line with a URI="..." attribute (#EXT-X-KEY, #EXT-X-MAP,
\* #EXT-X-MEDIA) keeps its structure and has only the quoted value replaced
\* by a proxy URL that encodes the value resolved against the playlist URL.
C5_UriAttributeRewritten ==
  Rewritten({"home", "content", "express"}) =>
    /\ Len(OutLines) = Len(InLines)
    /\ \A i \in DOMAIN InLines :
         IsUriDirective(InLines[i]) =>
           /\ IsUriDirective(OutLines[i])
           /\ UriHead(OutLines[i]) = UriHead(InLines[i])
           /\ UriTail(OutLines[i]) = UriTail(InLines[i])
           /\ \E prefix \in {ProxyPrefix, "/fetch?url="} :
                /\ StartsWith(UriValue(OutLines[i]), prefix)
                /\ UrlOf(UriValue(OutLines[i]), prefix) = Href(URLParse(UriValue(InLines[i]), Target))

---------------------------------------------------------------------------
(* Properties of the SSRF guard (SpecGuard)                                *)

\* The first group of a bracketed IPv6 host, "" for any other host
FirstGroup(host) == IF StartsWith(host, "[") THEN Split(Drop(host, 1), ":")[1] ELSE ""

\* The blocked list of the specification: localhost, 127.0.0.1, ::1, the
\* host of the incoming request, IPv4 in 0/8, 10/8, 169.254/16, 172.16/12,
\* 192.168/16, IPv6 in fc00::/7 and fe80::/10
SpecBlockedIPv4(m) ==
  /\ m # <<>>
  /\ \/ m[1] = 0 \/ m[1] = 10
     \/ (m[1] = 169 /\ m[2] = 254)
     \/ (m[1] = 172 /\ m[2] \in 16..31)
     \/ (m[1] = 192 /\ m[2] = 168)

SpecBlockedIPv6(g) ==
  /\ Len(g) = 4
  /\ \/ SubSeq(g, 1, 2) \in {"fc", "fd"}
     \/ (SubSeq(g, 1, 2) = "fe" /\ Ch(g, 3) \in {"8", "9", "a", "b"})

SpecBlockedHost(host, requestHost) ==
  \/ host \in {"localhost", "127.0.0.1", "[::1]"}
  \/ host = requestHost
  \/ SpecBlockedIPv4(IPv4Match(host))
  \/ SpecBlockedIPv6(FirstGroup(host))

\* A public IP: an IPv4 address outside the blocked and loopback ranges
SpecPublicIP(host) ==
  IPv4Match(host) # <<>> /\ ~SpecBlockedIPv4(IPv4Match(host)) /\ IPv4Match(host)[1] # 127

\* A handler has answered a request whose url parses as an http(s) URL
GuardedRequest == pc = "done" /\ route \in NextRoutes /\ Target.ok /\ Target.scheme \in {"http", "https"}

Did(ev) == \E i \in DOMAIN trace : trace[i].ev = ev

\* C6: the guard rejects every host of the blocked list and permits every
\* public IP.
C6_GuardTotality ==
  GuardedRequest =>
    /\ SpecBlockedHost(Hostname(Target), HostHeaderName(req.host)) => Ev("guard", "rejected") \in Range(trace)
    /\ SpecPublicIP(Hostname(Target)) => Ev("guard", "permitted") \in Range(trace)

\* C7: a request for a blocked host is answered 403 {error:"Forbidden host"}
\* with neither a cache lookup nor an origin fetch.
C7_BlockedHostForbidden ==
  (GuardedRequest /\ SpecBlockedHost(Hostname(Target), HostHeaderName(req.host))) =>
    /\ resp.status = 403
    /\ resp.body = "{\"error\":\"Forbidden host\"}"
    /\ ~Did("cacheGet") /\ ~Did("fetch") /\ ~Did("request")

\* C8: for a target that is not blocked, no request of the origin fetch
\* goes to a blocked host: a redirect hop into a blocked range is rejected.
C8_NoRequestToBlockedHost ==
  (GuardedRequest /\ ~SpecBlockedHost(Hostname(Target), HostHeaderName(req.host))) =>
    \A i \in DOMAIN trace :
      trace[i].ev = "request" =>
        ~SpecBlockedHost(Hostname(URLParse(trace[i].arg, FailURL)), HostHeaderName(req.host))

\* C9: a request whose url has a scheme other than http: or https: is
\* answered 403 and is never fetched.
C9_OtherSchemesForbidden ==
  (pc = "done" /\ route \in NextRoutes /\ Target.ok /\ Target.scheme \notin {"http", "https"}) =>
    resp.status = 403 /\ ~Did("request")

---------------------------------------------------------------------------
(* Properties of the signed handles (SpecFetch)                            *)

Verifies(q) == verifySignedUrl(q.resourceId, q.sig, q.exp, "segment", now)

\* C10 (as the code has it): a minted handle verifies at every time up to
\* and including the second of its expiry and at no later time; none of
\* the variants Presentable makes of it (a later expiry, another resource,
\* another signature) verifies.
C10_RedeemableThroughExpiry ==
  \A h \in minted :
    /\ Verifies(h) <=> UnixSeconds(now) <= DecValue(h.exp)
    /\ \A q \in Presentable(h) \ minted : ~Verifies(q)

\* A minted handle presented, and accepted, in the second of its expiry
C10_Witness ==
  /\ pc = "done" /\ route = "segment" /\ req.q \in minted
  /\ UnixSeconds(now) = DecValue(req.q.exp)
  /\ Ev("verify", "accepted") \in Range(trace)
  /\ Verifies(req.q)

\* C10 as stated: a minted handle verifies exactly at the times strictly
\* before its expiry.
C10_RedeemableBeforeExpiry ==
  \A h \in minted : Verifies(h) <=> UnixSeconds(now) < DecValue(h.exp)

\* The request in flight was answered by GET /fetch/segment/resource
Redeemed == pc = "done" /\ route = "segment"

\* C11: GET /fetch/segment/resource sends an origin request only for a
\* triple an earlier playlist response emitted, and the URL fetched and the
\* Referer sent are the ones recorded for its resourceId.
C11_OnlyMintedRedeemed ==
  (Redeemed /\ (Did("fetch") \/ Did("request"))) =>
    /\ req.q \in minted
    /\ req.q.resourceId \in DOMAIN handles
    /\ \A i \in DOMAIN trace :
         /\ trace[i].ev = "fetch" => trace[i].arg = handles[req.q.resourceId].url
         /\ trace[i].ev = "referer" => trace[i].arg = handles[req.q.resourceId].ref
    /\ Ev("referer", handles[req.q.resourceId].ref) \in Range(trace)

\* A minted handle redeemed: the segment was fetched and sent
C11_Witness ==
  /\ Redeemed /\ req.q \in minted /\ resp.status = 200 /\ resp.body = SegmentNet.body
  /\ Ev("request", "https://cdn.example/a/seg1.ts") \in Range(trace)
  /\ Ev("referer", "https://r.example/") \in Range(trace)

\* A respliced handle, which no playlist response emitted, passes the
\* signature check and is answered 404 without a fetch
C11_RespliceWitness ==
  /\ Redeemed /\ req.q \notin minted
  /\ Ev("verify", "accepted") \in Range(trace) /\ resp.status = 404 /\ ~Did("fetch")

\* The request in flight presents a handle with its three parameters
Presented == req.q # NoQuery /\ req.q.resourceId # "" /\ req.q.sig # "" /\ req.q.exp # ""

\* The expiry the presented handle names is a second already past
SigExpired == ~ParseInt(req.q.exp).nan /\ ParseInt(req.q.exp).val < UnixSeconds(now)

\* The presented signature is not the proxy's for this resourceId and expiry
SigForged == req.q.sig # HmacSha256Hex(SECRET_KEY, req.q.resourceId \o req.q.exp \o "segment")

\* The handle table holds a live record for the presented resourceId
RecordHeld == req.q.resourceId \in DOMAIN handles /\ ~(handles[req.q.resourceId].exp < now)

\* C12: redeeming a minted handle that is expired (the expiry of its
\* signature has passed) or unknown (no longer in the table) is answered 404.
C12_UnknownOrExpiredIs404 ==
  [][(FetchSegment /\ req.q \in minted /\ (SigExpired \/ ~RecordHeld)) => resp'.status = 404]_vars

\* C12 (as the code has it): a handle whose signature has expired or does
\* not match is answered 400 "Invalid or expired signed URL"; 404 "Resource
\* not found or expired" is the answer to a handle that verifies and has no
\* live record; a handle that verifies and has one gets neither answer.
C12_ExpiredIs400UnknownIs404 ==
  [][(FetchSegment /\ Presented) =>
       /\ (SigExpired \/ SigForged) =>
            resp' = JsonResponse(400, "{\"error\":\"Invalid or expired signed URL\"}")
       /\ (~SigExpired /\ ~SigForged /\ ~RecordHeld) =>
            resp' = JsonResponse(404, "{\"error\":\"Resource not found or expired\"}")
       /\ (~SigExpired /\ ~SigForged /\ RecordHeld) => resp'.status \notin {400, 404}]_vars

\* A minted handle redeemed after the second of its expiry: answered 400
C12_Witness ==
  /\ Redeemed /\ req.q \in minted /\ DecValue(req.q.exp) < UnixSeconds(now)
  /\ resp = JsonResponse(400, "{\"error\":\"Invalid or expired signed URL\"}")

\* C13: at every time at which a minted signed URL still verifies, the
\* handle table still holds its record, and a minted URL that verified is
\* never answered "Resource not found or expired".
C13_RecordLivesWhileUrlVerifies ==
  /\ \A h \in minted : Verifies(h) => NodeCacheGet(handles, h.resourceId, now).hit
  /\ (Redeemed /\ req.q \in minted /\ Ev("verify", "accepted") \in Range(trace)) =>
       resp # JsonResponse(404, "{\"error\":\"Resource not found or expired\"}")

\* The resourceIds whose records the handle table holds alive
LiveHandles == {k \in DOMAIN handles : NodeCacheGet(handles, k, now).hit}

\* C14: the handle table is bounded: fetching the same playlist again
\* does not add live records, so there is never more than one live record
\* for a segment URL and Referer.
C14_TableBounded ==
  \A a, b \in LiveHandles :
    (handles[a].url = handles[b].url /\ handles[a].ref = handles[b].ref) => a = b

---------------------------------------------------------------------------
(* Properties of the caches (SpecCache).                                   *)

\* The request in flight was answered by the home or the supabase route
CacheAnswered == pc = "done" /\ route \in {"home", "supabase"}

\* The answer came from a cache entry: 200 after a lookup and without a
\* request to the origin
FromCache == resp.status = 200 /\ Did("cacheGet") /\ ~Did("fetch")

\* C15: a request with a Range header is never answered from a cache entry
\* and never written to the cache, and a request without one is never
\* served a partial body.
C15_RangeBypassesCache ==
  /\ (CacheAnswered /\ req.range # "") => (~FromCache /\ ~Did("cacheSet"))
  /\ (CacheAnswered /\ req.range = "" /\ req.url = CacheSegmentUrl /\ resp.status = 200) =>
       resp.body = CacheSegmentBody

\* C16: a segment request with a Range header that the origin answers 206
\* is answered 206 with the origin's Content-Range, Accept-Ranges and
\* Content-Length.
C16_PartialContentPropagated ==
  (CacheAnswered /\ req.range # "" /\ req.url = CacheSegmentUrl /\ Did("request")
     /\ net.status = 206) =>
    /\ resp.status = 206
    /\ resp.h.cr = net.crange /\ resp.h.ar = net.aranges /\ resp.h.cl = net.clen

\* The exchange before this one was a cache miss that stored its entry
PrevStored ==
  /\ prev.resp.status = 200
  /\ \E i \in DOMAIN prev.trace : prev.trace[i].ev = "fetch"
  /\ \E i \in DOMAIN prev.trace : prev.trace[i].ev = "cacheSet"

\* C17: two sequential requests with identical inputs, the first a cache
\* miss that stores the entry and the second served from the cache, get
\* byte-identical bodies.
C17_CacheIdempotent ==
  (CacheAnswered /\ FromCache /\ req = prev.req /\ route = prev.route /\ PrevStored) =>
    resp.body = prev.resp.body

\* A playlist with quotes, a backslash, a tab and a CR served from the
\* home route's cache after the miss that stored it
C17_Witness ==
  /\ CacheAnswered /\ FromCache /\ req = prev.req /\ route = "home" /\ prev.route = "home"
  /\ PrevStored /\ req.url = CachePlaylistUrl
  /\ Includes(resp.body, "URI=\"k\\7.bin\"\r\n#EXTINF:4.0,\tlive\n")

\* A segment served from the home route's cache after the miss that
\* stored it: the bytes went through base64 and back
C17_SegmentWitness ==
  /\ CacheAnswered /\ FromCache /\ req = prev.req /\ route = "home" /\ prev.route = "home"
  /\ PrevStored /\ req.url = CacheSegmentUrl /\ resp.body = CacheSegmentBody
  /\ redis[home_getCacheKey(req.url)].val = "c2VnbWVudC1ieXRlcw=="

\* The oldest playlist entry the spec allows to be served (ms)
SpecPlaylistTTL == 15 * 1000

\* The m3u8_cache key of the request in flight
RowKey == IF req.ref # "" THEN Href(Target) \o "::ref=" \o req.ref ELSE Href(Target)

\* The instant the home route stored the playlist entry of the request in
\* flight: its expiry less the 10 s it was set with
HomeStoredAt == redis[home_getCacheKey(req.url)].exp - 10 * 1000

\* C18: a cached playlist is never served once it is older than 15 s: at
\* every playlist cache hit, now - fetchedAt <= 15 s.
C18_PlaylistHitsFresh ==
  [][(pc = "ready" /\ req.url = CachePlaylistUrl /\ (CacheAnswered /\ FromCache)') =>
       /\ route' = "supabase" => now - rows[RowKey].at <= SpecPlaylistTTL
       /\ route' = "home" => now - HomeStoredAt <= SpecPlaylistTTL]_vars

\* The home route answered a segment request from the origin: a cache
\* miss whose binary body was sent on
SegmentMiss ==
  /\ pc = "done" /\ route = "home" /\ req.url = CacheSegmentUrl
  /\ Did("request") /\ resp.status = 200 /\ resp.body = net.body

\* The entry the home route holds for the request in flight is the body
\* it sent, in base64, to expire 24 hours after it was stored
SegmentStored ==
  /\ home_getCacheKey(req.url) \in DOMAIN redis
  /\ Base64Decode(redis[home_getCacheKey(req.url)].val) = resp.body
  /\ redis[home_getCacheKey(req.url)].exp <= now + 86400 * 1000

CacheUp(n) == [n EXCEPT !.cacheOk = TRUE]

\* The answer of the route r to the request in flight against an empty,
\* working cache
CleanAnswer(r) ==
  IF r = "home" THEN home_GET(req, CacheUp(net), EmptyStore, now, TRUE).resp
  ELSE supabase_GET(req, CacheUp(net), EmptyStore, now, TRUE).resp

SameAnswer(a, b) == a.status = b.status /\ a.body = b.body

---------------------------------------------------------------------------
(* Properties of the response envelope (SpecRewrite, SpecGuard).           *)

\* C21: when the response body is a rewritten text, the response does not
\* carry the upstream Content-Length: the header is absent or is the length
\* of the body sent.
C21_ContentLengthNotForwarded ==
  (Rewritten(NextRoutes) /\ resp.body # net.body) =>
    (resp.h.cl = "" \/ resp.h.cl = ToDec(Len(resp.body)))

\* C22: every response of the proxy endpoint, on every path, carries
\* Access-Control-Allow-Origin: *.
C22_CorsOnEveryResponse ==
  (pc = "done" /\ route \in NextRoutes) => resp.h.acao = "*"

\* C23: when the origin answers with a non-2xx status, the proxy answers
\* with the same status and writes nothing to a cache or to the handle
\* table.
C23_UpstreamErrorMirrored ==
  [][(pc = "ready" /\ pc' = "done" /\ Did("request")' /\ ~StatusOk(net.status)) =>
       /\ resp'.status = net.status
       /\ redis' = redis /\ rows' = rows /\ handles' = handles /\ minted' = minted]_vars

---------------------------------------------------------------------------
(* Properties of the episode routes (SpecEpisode, SpecRace).               *)

\* The operations the invocation t has started, in order
Ops(t) == [i \in DOMAIN t.log |-> t.log[i].ev]

\* The body of the invocation t is one the prewarm route accepts
Accepted(t) ==
  t.kind = "prewarm" /\ t.input.parsed /\ t.input.isArray /\ t.input.episodeIds # <<>>

\* C24: POST /episode/prewarm with a non-empty array answers 200
\* {status: "scheduled", count} with the number of ids in the step in which
\* it arrives, when the job has had no answer from the table or the scraper,
\* and nothing the job does later touches that response.
C24_ScheduledAtOnce ==
  [][\A i \in DOMAIN tasks' : Accepted(tasks'[i]) =>
       IF i \in DOMAIN tasks
       THEN tasks'[i].reply = tasks[i].reply
       ELSE /\ tasks'[i].reply = ScheduledReply(Len(tasks'[i].input.episodeIds))
            /\ Ops(tasks'[i]) \in {<<"getHiAnimeScraper">>, <<"getHiAnimeScraper", "select">>}
            /\ tasks'[i].payload = NoRow]_vars

\* A job that has scraped and upserted behind a response sent long before
C24_Witness ==
  \E i \in DOMAIN tasks :
    /\ Accepted(tasks[i]) /\ tasks[i].reply.bodyStatus = "scheduled" /\ tasks[i].reply.count = 3
    /\ tasks[i].pc = "done" /\ tasks[i].payload # NoRow

\* C25: among the prewarm jobs at most one call of scraper.getEpisodeSources
\* is in flight for a compositeKey at a time.
C25_OneDiscoveryPerKey ==
  \A i, j \in DOMAIN tasks :
    (/\ tasks[i].kind = "prewarm" /\ tasks[i].pc = "scrape"
     /\ tasks[j].kind = "prewarm" /\ tasks[j].pc = "scrape"
     /\ tasks[i].key = tasks[j].key) => i = j

\* The invocation t has called the operation op
Called(t, op) == \E k \in DOMAIN t.log : t.log[k].ev = op

\* C26: a GET /episode/sources that begins after a prewarm job has scraped
\* and upserted its key, less than 1800 s after that row's fetchedAt,
\* answers fromCache: true and does not call the scraper.
C26_PrewarmedServedFromCache ==
  \A i, j \in DOMAIN tasks :
    (/\ tasks[i].kind = "sources" /\ tasks[i].pc # "select" /\ j \in tasks[i].after
     /\ tasks[j].kind = "prewarm" /\ tasks[j].payload.compositeKey = tasks[i].key
     /\ tasks[i].now - fetchedAtMs(tasks[j].payload) < CACHE_TTL_SECONDS * 1000)
    => (tasks[i].reply.fromCache /\ ~Called(tasks[i], "getEpisodeSources"))

\* The select of the invocation i answers in this step
Looked(i) == i \in DOMAIN tasks /\ tasks[i].pc = "select" /\ tasks'[i] # tasks[i]

\* The spec's test on a row: now - fetchedAt < 1800 s
SpecFresh(row, t) == row # NoRow /\ t - DateGetTime(row.fetchedAt) < 1800 * 1000

\* How many times the invocation t has called the operation op
Calls(t, op) == Cardinality({k \in DOMAIN t.log : t.log[k].ev = op})

\* C27: when the select of a GET /episode/sources or of a prewarm job
\* answers with a row less than 1800 s old, the invocation has awaited no
\* initialisation of the scraper, it does not call the scraper for the row,
\* and the step leaves the table as it was.
C27_FreshShortCircuits ==
  [][\A i \in DOMAIN tasks :
       (Looked(i) /\ SpecFresh(tasks'[i].cached, tasks[i].now)) =>
         /\ episode_sources' = episode_sources
         /\ Calls(tasks'[i], "getEpisodeSources") = Calls(tasks[i], "getEpisodeSources")
         /\ tasks'[i].promise = 0 /\ initOutcome' = initOutcome]_vars

\* The scrape of the invocation t has thrown
ScrapeFailed(t) == t.pc = "done" /\ Called(t, "getEpisodeSources") /\ t.payload = NoRow

\* C28: a GET /episode/sources that has read a stale row and whose scrape
\* has failed answers 200 with the data of that row, fromCache: true and
\* stale: true.
C28_StaleServedOnFailure ==
  \A i \in DOMAIN tasks :
    (tasks[i].kind = "sources" /\ tasks[i].cached # NoRow /\ ScrapeFailed(tasks[i])) =>
      /\ tasks[i].reply.status = 200 /\ tasks[i].reply.data = tasks[i].cached.data
      /\ tasks[i].reply.fromCache /\ tasks[i].reply.stale

\* C29: the id the servers route keys its work with is the id the client
\* was given, URL-decoded once and reduced to base[?ep=digits]; an id that
\* reduces to nothing is refused.
C29_DecodedOnceAlongThePath ==
  tasks[1].stage \in {"keyed", "done"} =>
    IF sanitizeMatch(decodeOrRaw(tasks[1].raw), IndexOf(decodeOrRaw(tasks[1].raw), "?")) = ""
    THEN tasks[1].reply.status = 400
    ELSE tasks[1].animeEpisodeId =
           sanitizeMatch(decodeOrRaw(tasks[1].raw), IndexOf(decodeOrRaw(tasks[1].raw), "?"))

\* The initialisation attempts in flight
InFlight == {n \in DOMAIN initOutcome : initOutcome[n] = Pending}

\* At most one attempt is in flight, it is the one _initializing names, and
\* none is while an instance exists
SingleFlight ==
  /\ Cardinality(InFlight) <= 1
  /\ \A n \in InFlight : _initializing = n /\ _scraper = 0
  /\ InFlight = {} => _initializing = 0

\* Every caller has what its call promised: the outcome of the attempt it
\* found or started once that attempt has settled, or the instance that
\* existed when it called
SharedOutcome ==
  \A i \in DOMAIN tasks :
    Called(tasks[i], "getHiAnimeScraper") =>
      IF tasks[i].promise = 0 THEN tasks[i].scraper # 0 /\ tasks[i].scraper = _scraper
      ELSE IF tasks[i].promise \in InFlight THEN tasks[i].pc = "scraper"
      ELSE tasks[i].pc # "scraper" /\ tasks[i].scraper = initOutcome[tasks[i].promise]

\* C30: initialisation is single-flight: at most one attempt is in flight,
\* every caller that arrives during it gets its outcome, and once an
\* instance exists no attempt starts and every call returns that instance.
C30_SingleFlightInit ==
  [][/\ SingleFlight' /\ SharedOutcome'
     /\ _scraper # 0 => (_scraper' = _scraper /\ initOutcome' = initOutcome)]_vars

\* Two callers of one attempt, both holding the instance it made
C30_Witness ==
  \E i, j \in DOMAIN tasks :
    /\ i # j /\ tasks[i].promise # 0 /\ tasks[i].promise = tasks[j].promise
    /\ tasks[i].scraper # 0 /\ tasks[j].scraper = tasks[i].scraper /\ _scraper = tasks[i].scraper

\* The invocation t shared an attempt that has failed
SharedFailure(t) ==
  Called(t, "getHiAnimeScraper") /\ t.promise # 0 /\ t.promise \notin InFlight
    /\ initOutcome[t.promise] = 0

\* C31: every request that shared a failed initialisation attempt answers
\* 503; the failure clears the marker, and the next call starts an attempt.
C31_FailedInitIsUnavailable ==
  /\ \A i \in DOMAIN tasks : SharedFailure(tasks[i]) => tasks[i].reply.status = 503
  /\ InFlight = {} => _initializing = 0

---------------------------------------------------------------------------
(* Properties of the classification of the origin's answer (SpecClassify)  *)

\* The path of the requested URL ends in a binary segment suffix
BinarySuffix == \E ext \in {".ts", ".m4s", ".mp4"} : EndsWith(ToLower(Pathname(URLParse(req.url, FailURL))), ext)

PlaylistSuffix == EndsWith(ToLower(Pathname(URLParse(req.url, FailURL))), ".m3u8")

\* The body the route sends for the playlist the origin has sent
RewrittenBody ==
  IF route = "home"
    THEN home_rewriteM3U8(net.body, URLParse(req.url, FailURL), encodeURIComponent(HomeDefaultRef))
    ELSE rewriteContent(net.body, URLParse(req.url, FailURL), HomeDefaultRef, net.ctype)

\* C32: the suffix of the path decides, whatever Content-Type the origin
\* sends: a .ts, .m4s or .mp4 URL is answered with the origin's bytes, never
\* rewritten as text, and a .m3u8 URL is answered with the rewritten text.
C32_SuffixWinsOverContentType ==
  (pc = "done" /\ resp.status = 200) =>
     /\ BinarySuffix => resp.body = net.body
     /\ PlaylistSuffix => resp.body = RewrittenBody

---------------------------------------------------------------------------
(* Properties of the subtitle rewrite (SpecSubtitle)                       *)

\* The line holds text that reads as a bare URL: http://, https://, ./ or ../
HasBareUrl(line) == Includes(line, "http://") \/ Includes(line, "https://") \/ Includes(line, "./")

\* C33: in the body sent for a WebVTT track the lines are those of the
\* origin, and a line without a bare URL (a timing cue, a styling block, cue
\* text, an empty line) is sent as the origin sent it.
C33_VttFramePreserved ==
  (pc = "done" /\ resp.status = 200) =>
     /\ Len(Split(resp.body, "\n")) = Len(Split(net.body, "\n"))
     /\ \A i \in DOMAIN Split(net.body, "\n") :
          ~HasBareUrl(Split(net.body, "\n")[i]) => Split(resp.body, "\n")[i] = Split(net.body, "\n")[i]

---------------------------------------------------------------------------
(* Properties of the origin timeout (SpecTimeout)                          *)

\* The requests the handler has sent to the origin for the request in flight
OriginRequests == Cardinality({k \in DOMAIN trace : trace[k].ev = "request"})

\* The origin was asked and did not answer before the deadline
TimedOut == pc = "done" /\ net.kind = "timeout" /\ OriginRequests > 0

\* C34 as stated: a playlist fetch that times out is tried again twice
\* before the 504, three requests in all; a segment fetch that times out is
\* answered 504 after its one request.
C34_PlaylistTimeoutRetried ==
  TimedOut =>
    /\ resp.status = 504
    /\ OriginRequests = IF req.url = CachePlaylistUrl THEN 3 ELSE 1

\* C34, amended: an origin timeout is answered 504 after one request to the
\* origin, for a playlist as for a segment; the routes do not try again.
C34_TimeoutFailsAtOnce == TimedOut => resp.status = 504 /\ OriginRequests = 1

C34_Witness == TimedOut /\ req.url = CachePlaylistUrl /\ resp.status = 504 /\ served = 2

\* C35: the scraper cache holds at most one record for each compositeKey,
\* however the requests for a key interleave.
C35_OneRecordPerKey ==
  \A r, q \in episode_sources : r.compositeKey = q.compositeKey => r = q

---------------------------------------------------------------------------
(* Properties of the signature's input (SpecFetch)                         *)

\* C36: verifySignedUrl accepts a triple only when its signature was minted
\* for that resourceId and that exp: every triple GET /fetch/segment/resource
\* has accepted is one a playlist response handed out.
C36_SignatureBindsBothFields ==
  (Redeemed /\ Ev("verify", "accepted") \in Range(trace)) => req.q \in minted

---------------------------------------------------------------------------
(* Properties of the ref of a cached playlist (SpecRef)                    *)

\* The ref the rewritten URIs of the answer carry: the request's, or the
\* home route's default; the supabase route adds none when none was sent
CarriedRef == IF req.ref # "" THEN req.ref ELSE IF route = "home" THEN HomeDefaultRef ELSE ""

\* The line is a rewritten URI with the ref parameter of the request
CarriesRef(line) ==
  IF CarriedRef = "" THEN ~Includes(line, "&ref=")
  ELSE EndsWith(line, "&ref=" \o encodeURIComponent(CarriedRef))

\* C37: every rewritten URI of a playlist answer carries the ref of the
\* request it answers, whether the playlist came from the origin or from
\* the cache.
C37_CachedPlaylistCarriesRef ==
  (pc = "done" /\ resp.status = 200) =>
     \A i \in DOMAIN Split(resp.body, "\n") :
        StartsWith(Split(resp.body, "\n")[i], "/api/m3u8?url=") => CarriesRef(Split(resp.body, "\n")[i])

\* C38: the data of every row of the table is what the scraper answered for
\* the episode, the server and the category the row is keyed by.
C38_RowHoldsItsKeysSources ==
  \A r \in episode_sources :
    /\ r.compositeKey = makeKey(r.animeEpisodeId, r.category, r.server)
    /\ StartsWith(r.data, "sources:" \o r.animeEpisodeId \o ":" \o r.server \o ":" \o r.category \o "@")

---------------------------------------------------------------------------
(* Properties of the nested playlists of GET /fetch (SpecNested)           *)

\* The line of the origin's playlist names a URL, and the path of that URL
\* ends in .m3u8
NamesUrl(line) == Trim(line) # "" /\ ~StartsWith(Trim(line), "#")

NamesPlaylist(line) ==
  EndsWith(Pathname(URLParse(Trim(line), URLParse(req.url, FailURL))), ".m3u8")

\* C39: in the answer of GET /fetch a line that names a nested playlist,
\* with or without a query string or a fragment, is a /fetch?url= URL, and
\* a line that names a media segment is a signed handle.
C39_NestedPlaylistsNotMinted ==
  (pc = "done" /\ route = "express" /\ resp.status = 200) =>
     \A i \in DOMAIN Split(net.body, "\n") :
        NamesUrl(Split(net.body, "\n")[i]) =>
          IF NamesPlaylist(Split(net.body, "\n")[i])
          THEN StartsWith(Split(resp.body, "\n")[i], "/fetch?url=")
          ELSE StartsWith(Split(resp.body, "\n")[i], "/fetch/segment/resource?resourceId=")

---------------------------------------------------------------------------
(* Properties of the Upstash client (SpecUpstash)                          *)

\* The answers before the last one of the call
EarlierAnswers(call) == SubSeq(call.answers, 1, Len(call.answers) - 1)

\* The call has sent at most three requests, one for each answer and one
\* for the fetch at its await, each after a failure of the one before; it
\* has returned on the first answer that is ok, and it has thrown the error
\* of the third failure.
ThreeAttempts(call) ==
  /\ call.requests <= 3
  /\ call.requests = Len(call.answers) + (IF call.pc = "fetch" THEN 1 ELSE 0)
  /\ call.pc = "fetch" => call.attempt = call.requests
  /\ \A k \in DOMAIN EarlierAnswers(call) : ~UpstashOk(call.answers[k])
  /\ call.pc = "done" =>
       IF UpstashOk(call.answers[Len(call.answers)]) THEN call.outcome = "returned"
       ELSE /\ call.outcome = "thrown" /\ call.requests = 3
            /\ call.err = UpstashError(call.answers[3])

\* C40: every call of getCached and setCached ends, and upstashFetch sends
\* at most three requests for it: it returns the first ok response, sends
\* the request again after a failure while attempt < 3, and throws the
\* error of the third failure.
C40_AtMostThreeAttempts ==
  /\ [](\A i \in DOMAIN tasks : ThreeAttempts(tasks[i]))
  /\ <>[](\A i \in DOMAIN tasks : tasks[i].pc = "done")

\* A call that has thrown the error of its third failure, a status, after a
\* rejection, and a call that has returned on its second attempt
C40_Witness ==
  \E i, j \in DOMAIN tasks :
    /\ tasks[i].pc = "done" /\ tasks[i].outcome = "thrown" /\ tasks[i].requests = 3
    /\ tasks[i].answers[1].kind = "rejected" /\ tasks[i].answers[3].kind = "status"
    /\ tasks[j].pc = "done" /\ tasks[j].outcome = "returned" /\ tasks[j].requests = 2

====
